---- MODULE Spec2Model ----
(***************************************************************************)
(* The lock manager of wtree (internal/worktree/lock.go): several          *)
(* operating-system processes, each with one LockManager and some threads, *)
(* share one lock directory.  Every system call on the lock directory      *)
(* (exclusive create, write, read, remove) is one atomic step; the code    *)
(* between two system calls is local to the calling thread and belongs to  *)
(* the step of the system call before it.                                  *)
(*                                                                         *)
(* Time is counted per AcquireLock call in units of 50ms: only             *)
(* time.Sleep(retryDelay) takes time, every other step is instantaneous.   *)
(***************************************************************************)
EXTENDS Integers, Sequences, FiniteSets, TLC

\* ---------------------------------------------------------------- bounds

\* AcquireLock calls, of all processes together, that get as far as
\* newOperationLock.
MaxHandles == 2
\* The largest timeout a caller passes, in units of 50ms.
MaxTimeout == 1
\* AddXCleanup calls in a run, and the dependencies one ledger holds.
MaxOps == 3
MaxDeps == 2

\* retryDelay: 100 * time.Millisecond, in units of 50ms.
RetryDelay == 2

\* Process ids.  Every process owns one LockManager.  The processes of Dead
\* ran earlier and have died.
Procs == {1, 2, 3}
Dead == {3}
\* Thread t of process p is <<p, t>>.
Threads == {<<1, 1>>, <<1, 2>>, <<1, 3>>, <<2, 1>>}
\* The processes that may die while the others go on.
Crashable == {2}

Timeouts == 0..MaxTimeout

\* The LockType constants.
LockTypeCreate == "create"
LockTypeDelete == "delete"
LockTypeMerge == "merge"
LockTypeSwitch == "switch"
LockTypeCleanup == "cleanup"
LockTypes == {LockTypeCreate, LockTypeDelete, LockTypeMerge, LockTypeSwitch, LockTypeCleanup}

\* Target paths the callers pass; the second and third are other spellings
\* of the first.
TargetPaths == {"/repo/A", "/repo/A/", "/repo/./A", "/repo/B"}

\* ------------------------------------------------------- generateLockKey

\* fmt.Sprintf("%x", sha256.Sum256([]byte(targetPath))[:8]) for the paths of
\* TargetPaths: the first 8 bytes of the SHA-256 digest, in hex.
sha256Prefix(targetPath) ==
    CASE targetPath = "/repo/A"   -> "85df1fea27272a1b"
      [] targetPath = "/repo/A/"  -> "9661f0aa2b3c8e98"
      [] targetPath = "/repo/./A" -> "be8a130fedf700e4"
      [] targetPath = "/repo/B"   -> "c66b50fb3174bc36"

\* A key that leaves the operation out.
generateLockKeyOfPath(operation, targetPath) ==
    "wtree-" \o sha256Prefix(targetPath)

generateLockKey(operation, targetPath) ==
    "wtree-" \o operation \o "-" \o sha256Prefix(targetPath)

\* ------------------------------------------------------------- the state

\* The (kind, path) pairs the threads ask for.
Requests == {<<LockTypeCreate, "/repo/A">>, <<LockTypeDelete, "/repo/A">>}
LockKeys == {generateLockKey(r[1], r[2]) : r \in Requests}

\* OperationLock handles: <<p, n>> is the n-th one process p constructs in
\* the run, <<p, 0>> one it constructed before the run starts.
HandleIds == Procs \X (0..MaxHandles)
NoHandle == <<0, 0>>
\* A lock file: the handle whose OpenFile created it (its identity, the
\* inode) and the pid line of its content, 0 while the record is not written.
NoFile == [creator |-> NoHandle, pid |-> 0]

TheKey == generateLockKey(LockTypeCreate, "/repo/A")

\* How a run starts.  Two processes of one thread each, next to what the dead
\* process left of its lock on TheKey: nothing, the file with its record, or
\* the file created and not yet written.  Or one process of two threads, and
\* process 2 doing nothing, holding TheKey or not.
Starts ==
    {[threads |-> {<<1, 1>>, <<2, 1>>}, file |-> f] :
        f \in {NoFile} \cup UNION {{[creator |-> <<d, 0>>, pid |-> d],
                                    [creator |-> <<d, 0>>, pid |-> 0]} : d \in Dead}}
    \cup {[threads |-> {<<1, 1>>, <<1, 2>>}, file |-> f] :
        f \in {NoFile, [creator |-> <<2, 0>>, pid |-> 2]}}

VARIABLES
    alive,      \* alive[p]: process p exists (what the liveness probe answers)
    files,      \* the lock directory: files[key] is NoFile or the file key.lock
    locks,      \* locks[p][key]: lm.locks of p's manager, NoHandle for no entry
    mu,         \* mu[p]: the thread holding lm.mu, <<0, 0>> for none
    ol,         \* ol[h]: the fields of OperationLock h
    pc,         \* pc[th]: where thread th is
    call,       \* call[th]: the AcquireLock or ReleaseAll call th is inside
    last,       \* what the call that finished last returned, and to whom
    fsFaults,   \* whether Close, Remove and WriteString may fail
    args,       \* two (operation, targetPath) arguments of generateLockKey
    keys,       \* the keys generateLockKey returned for them
    local,      \* local[th]: what goroutine th of the contention test has done
    operations,             \* rm.operations, the ledger
    dependencies,           \* rm.dependencies, as pairs <<dependsOnID, dependentID>>
    failFast,               \* rm.failFast
    failFastExplicitlySet,  \* rm.failFastExplicitlySet
    lastError,              \* rm.lastError
    added,                  \* how many operations have been recorded so far
    invocations,            \* invocations[n]: how often the n-th recorded action ran
    ret,                    \* what Execute did and returned, if called last
    rmMu,                   \* rm.mu: the goroutine holding it, NoAdder for none
    adders,                 \* adders[g]: the AddXCleanup call of goroutine g
    exec                    \* the Create or Delete of the Manager of process 1

lockVars == <<alive, files, locks, mu, ol, pc, call, last, fsFaults>>
keyVars == <<args, keys>>
rmVars == <<operations, dependencies, failFast, failFastExplicitlySet, lastError,
           added, invocations, ret>>
addVars == <<rmMu, adders>>
\* What the lock manager leaves alone, and all the variables.
notLockVars == <<keyVars, local, rmVars, addVars, exec>>
vars == <<lockVars, keyVars, local, rmVars, addVars, exec>>

NoThread == <<0, 0>>
\* OperationLock: lockPath (as its key), operation, acquired, lockFile (open
\* or nil); returned records that AcquireLock gave the handle to its caller.
NoLock == [key |-> "", operation |-> "", acquired |-> FALSE, lockFile |-> FALSE,
           returned |-> FALSE]
\* A call in progress: the handle, ol.timeout, the time slept so far, the
\* error acquire returned, ReleaseAll's handles to go and its errors.  Two
\* records of the call's history: holder, the handle by which another live
\* process held the key when the call started; alone, whether the call found
\* a file recording the pid of a dead process and no other process has
\* competed for the key since.
NoCall == [h |-> NoHandle, timeout |-> 0, elapsed |-> 0, err |-> "none",
           pending |-> {}, failed |-> {}, holder |-> NoHandle, alone |-> FALSE]
\* What a call returned, th being the caller: res is "ok" for a nil error.  noop records that a
\* ReleaseLock had nothing to release, "nil" for no handle and "released" for
\* a handle that was not acquired; tracked and failed are the handles a
\* ReleaseAll found in the table and those whose Release returned an error.
NoResult == [th |-> NoThread, op |-> "none", res |-> "none", noop |-> "",
             tracked |-> {}, failed |-> {}]

Proc(th) == th[1]

\* ------------------------------------------- the rollback manager's state

\* An operation of the ledger: Critical, ID and DependsOn (as the set of its
\* elements: Execute only asks whether an ID is among them); serial tells the
\* n-th action recorded in the run, which stands for Action and Description.
RollbackOperations ==
    [Critical : BOOLEAN, ID : 0..MaxOps, DependsOn : SUBSET (-1..MaxOps),
     serial : 1..MaxOps]

\* An error value: the error of the action of an operation, wrapped with its
\* description (lines 163, 196, 237), or the dependency-constraint error of
\* an operation (line 257); nil.
NoError == [kind |-> "nil", serial |-> 0]
ActionError(op) == [kind |-> "action", serial |-> op.serial]
ConstraintError(op) == [kind |-> "constraint", serial |-> op.serial]

\* What Execute did and returned, while it is the method called last. The
\* ledger it ran on: the mode, the length, the critical IDs, the number of
\* dependencies, whether an operation depends on itself (directly or through
\* a chain) and whether one depends on an ID that is not in the ledger. What
\* it did: the IDs whose actions it invoked, in order, with the pass of the
\* loop of line 213 in which each was invoked (0 in the fail-fast branch,
\* where the phase of an operation is told by Critical), those whose action
\* returned an error, those given a dependency-constraint error, len(errors),
\* the passes of the loop of line 213, and the error returned ("nil",
\* "aggregate" or "critical").
NoReturn == [call |-> "none", mode |-> "", n |-> 0, critical |-> {},
             ndeps |-> 0, cyclic |-> FALSE, missing |-> FALSE,
             invoked |-> <<>>, round |-> <<>>, errored |-> {}, stuck |-> {},
             nerr |-> 0, passes |-> 0, err |-> "nil"]

\* The method called last did not return: it panicked.
Panicked == [NoReturn EXCEPT !.call = "panic"]

\* NewRollbackManager, lines 44-51.
NewRollbackManager ==
    /\ operations = <<>>
    /\ dependencies = {}
    /\ failFast = TRUE
    /\ failFastExplicitlySet = FALSE
    /\ lastError = NoError
    /\ added = 0
    /\ invocations = [n \in 1..MaxOps |-> 0]
    /\ ret = NoReturn

\* A goroutine of the contention test: "fresh" before its AcquireLock,
\* "failed" once that returned an error, else "acquired", "held" after the
\* time it keeps the lock and "released" after its ReleaseLock, with the
\* handle it was given. For the record: whether, when its AcquireLock
\* returned, another goroutine was holding the lock (busy), and whether one
\* had already released it (late).
Fresh == [at |-> "fresh", h |-> NoHandle, busy |-> FALSE, late |-> FALSE]

\* The goroutines that call an AddXCleanup method, one call each, and the
\* RollbackType constants that tell the four methods apart.
Adders == 1..MaxOps
NoAdder == 0
RollbackRemoveWorktree == "remove_worktree"
RollbackDeleteBranch == "delete_branch"
RollbackRemoveFiles == "remove_files"
RollbackCleanupLinks == "cleanup_links"
RollbackTypes == {RollbackRemoveWorktree, RollbackDeleteBranch,
                  RollbackRemoveFiles, RollbackCleanupLinks}
\* A goroutine's call: "go" before it, "locked" with rm.mu taken, "len" once
\* id is computed, "appended", and "done" when it has returned; the method
\* called (by its Type) and the local id, which is what is returned.
NotAdding == [at |-> "go", type |-> "", id |-> -1]

\* The Manager's operation: which one (op), where it is (at), whether
\* m.lockManager is nil, the handle AcquireLock returned (operationLock),
\* branchCreated, how many compensating actions it has appended, and the
\* error it returns ("nil" for none).
NotStarted == [op |-> "none", at |-> "idle", nolock |-> FALSE, h |-> NoHandle,
               branchCreated |-> FALSE, appended |-> 0, err |-> "nil"]

NoneCalled ==
    /\ local = [th \in Threads |-> Fresh]
    /\ rmMu = NoAdder
    /\ adders = [g \in Adders |-> NotAdding]
    /\ exec = NotStarted

\* The state after NewLockManager in every process.  A lock file that is
\* there at the start comes with the handle that created it and, once its
\* record is written, with the table entry of its process.
StartState(s, faults) ==
    LET h == s.file.creator
        held == s.file # NoFile
    IN  /\ alive = [p \in Procs |-> p \notin Dead]
        /\ files = [k \in LockKeys |-> IF k = TheKey THEN s.file ELSE NoFile]
        /\ locks = [p \in Procs |-> [k \in LockKeys |->
                       IF held /\ s.file.pid # 0 /\ p = h[1] /\ k = TheKey
                       THEN h ELSE NoHandle]]
        /\ mu = [p \in Procs |-> NoThread]
        /\ ol = [x \in HandleIds |->
                    IF held /\ x = h
                    THEN [key |-> TheKey, operation |-> LockTypeCreate,
                          acquired |-> TRUE, lockFile |-> TRUE,
                          returned |-> s.file.pid # 0]
                    ELSE NoLock]
        /\ pc = [th \in Threads |-> IF th \in s.threads THEN "idle" ELSE "off"]
        /\ call = [th \in Threads |-> NoCall]
        /\ last = NoResult
        /\ fsFaults = faults

Init ==
    /\ \E s \in Starts : StartState(s, FALSE)
    /\ args = <<>>
    /\ keys = <<>>
    /\ NoneCalled
    /\ NewRollbackManager

\* ------------------------------------------------------------ the helpers

\* The handles process p has constructed in the run, and the next one.
Constructed(p) == {h \in HandleIds : h[1] = p /\ h[2] > 0 /\ ol[h].key # ""}
NextHandle(p) == <<p, Cardinality(Constructed(p)) + 1>>

\* AcquireLock without the check of line 70, and with a check that rejects
\* every call.
AlwaysAlreadyAcquired(p, key) == TRUE
NeverAlreadyAcquired(p, key) == FALSE

\* line 70: existingLock, exists := lm.locks[lockKey]; exists && existingLock.acquired
AlreadyAcquired(p, key) ==
    /\ locks[p][key] # NoHandle
    /\ ol[locks[p][key]].acquired

\* line 183: time.Since(startTime) >= ol.timeout
TimedOut(elapsed, timeout) == elapsed >= timeout

\* The pid line of a lock file's content, as extractPIDFromLockInfo parses
\* it: 0 for a file with no (valid) pid line, such as a file that was created
\* and not yet written.
extractPIDFromLockInfo(file) == file.pid

\* processExistsUnix: signal 0 reaches the process.
processExistsUnix(pid) == pid \in Procs /\ alive[pid]

\* isLockStale without the liveness probe of lines 249-252.
isLockStaleNoProbe(key) ==
    \/ files[key] = NoFile
    \/ extractPIDFromLockInfo(files[key]) <= 0

\* isLockStale: the file cannot be read, has no valid pid, or names a process
\* that does not exist.
isLockStale(key) ==
    IF files[key] = NoFile
    THEN TRUE
    ELSE IF extractPIDFromLockInfo(files[key]) > 0
         THEN ~processExistsUnix(extractPIDFromLockInfo(files[key]))
         ELSE TRUE

\* os.Remove(path): the directory afterwards.
Remove(key) == [files EXCEPT ![key] = NoFile]

\* The choices of an injected I/O error.
Faults == IF fsFaults THEN BOOLEAN ELSE {FALSE}

\* The thread leaves its call with result r and lets go of lm.mu.
Return(th, r) ==
    /\ pc' = [pc EXCEPT ![th] = "idle"]
    /\ call' = [call EXCEPT ![th] = NoCall]
    /\ last' = r
    /\ mu' = [mu EXCEPT ![Proc(th)] = NoThread]

Result(th, op, res) == [NoResult EXCEPT !.th = th, !.op = op, !.res = res]

Running(th) == alive[Proc(th)]

\* The handle an AcquireLock call in progress is acquiring, if any.
InProgress(h) == \E th \in Threads : pc[th] # "releaseall" /\ call[th].h = h

\* The handles by which live processes other than p hold the key, and those
\* by which they hold it or are acquiring it.
Holders(p, key) ==
    {x \in HandleIds : /\ x[1] # p /\ alive[x[1]] /\ ol[x].key = key
                       /\ ol[x].returned /\ ol[x].acquired}
Competitors(p, key) ==
    {x \in HandleIds : /\ x[1] # p /\ alive[x[1]] /\ ol[x].key = key
                       /\ (ol[x].acquired \/ InProgress(x))}

\* ------------------------------------------------------------ AcquireLock

\* acquire, lines 156-191, one turn of the loop up to its first branch:
\* os.OpenFile(O_CREATE|O_EXCL) creates the file, empty, and the handle is
\* acquired; or the file exists, and then the call has timed out, or goes on
\* to the staleness check.  lock is the handle's fields and c the call so
\* far, calls the other threads' calls.  readLockInfo at line 185 only words
\* the error.
OpenExclusive(th, h, lock, c, calls) ==
    IF files[lock.key] = NoFile
    THEN /\ files' = [files EXCEPT ![lock.key] = [creator |-> h, pid |-> 0]]
         /\ ol' = [ol EXCEPT ![h] = [lock EXCEPT !.acquired = TRUE, !.lockFile = TRUE]]
         /\ pc' = [pc EXCEPT ![th] = "write"]
         /\ call' = [calls EXCEPT ![th] = c]
    ELSE /\ files' = files
         /\ ol' = [ol EXCEPT ![h] = lock]
         /\ IF TimedOut(c.elapsed, c.timeout)
            THEN /\ pc' = [pc EXCEPT ![th] = "cleanup"]
                 /\ call' = [calls EXCEPT ![th] = [c EXCEPT !.err = "timeout"]]
            ELSE /\ pc' = [pc EXCEPT ![th] = "stale"]
                 /\ call' = [calls EXCEPT ![th] = c]

\* The calls in progress once process p starts to acquire the key: a call of
\* another process for the same key is no longer alone.
Disturbed(p, key) ==
    [t \in Threads |->
        IF Proc(t) # p /\ call[t].h # NoHandle /\ ol[call[t].h].key = key
        THEN [call[t] EXCEPT !.alone = FALSE]
        ELSE call[t]]

\* AcquireLock, lines 62-82, and acquire up to the first OpenFile: take
\* lm.mu, compute the key, reject a key this manager holds, construct the
\* OperationLock (newOperationLock, lines 132-142) and try to create the file.
AcquireLock(th, lockType, targetPath, timeout) ==
    LET p == Proc(th)
        lockKey == generateLockKey(lockType, targetPath)
        h == NextHandle(p)
        holders == Holders(p, lockKey)
        stale == /\ files[lockKey] # NoFile
                 /\ files[lockKey].pid # 0
                 /\ ~alive[files[lockKey].pid]
    IN  /\ Running(th)
        /\ UNCHANGED notLockVars
        /\ pc[th] = "idle"
        /\ mu[p] = NoThread
        /\ IF AlreadyAcquired(p, lockKey)
           THEN /\ last' = Result(th, "acquire", "already")
                /\ UNCHANGED <<alive, files, locks, mu, ol, pc, call, fsFaults>>
           ELSE /\ Cardinality(UNION {Constructed(q) : q \in Procs}) < MaxHandles
                /\ mu' = [mu EXCEPT ![p] = th]
                /\ OpenExclusive(th, h,
                       [NoLock EXCEPT !.key = lockKey, !.operation = lockType],
                       [NoCall EXCEPT
                           !.h = h, !.timeout = timeout,
                           !.holder = IF holders = {} THEN NoHandle
                                      ELSE CHOOSE x \in holders : TRUE,
                           !.alone = stale /\ Competitors(p, lockKey) = {}],
                       Disturbed(p, lockKey))
                /\ UNCHANGED <<alive, locks, last, fsFaults>>

\* acquire, line 156, a later turn of the loop.
TryCreate(th) ==
    /\ Running(th)
    /\ UNCHANGED notLockVars
    /\ pc[th] = "create"
    /\ OpenExclusive(th, call[th].h, ol[call[th].h], call[th], call)
    /\ UNCHANGED <<alive, locks, mu, last, fsFaults>>

\* acquire, lines 163-174, and AcquireLock, lines 87-88: file.WriteString
\* writes the record through the open descriptor, so into the file this
\* handle created even when that file has since been unlinked; then the
\* handle is registered and returned.  Lines 166-171: a failed write closes
\* the descriptor and goes on to remove the path.
WriteLockInfo(th) ==
    LET h == call[th].h
        key == ol[h].key
    IN  /\ Running(th)
        /\ UNCHANGED notLockVars
        /\ pc[th] = "write"
        /\ \E writeErr \in Faults :
             IF writeErr
             THEN /\ pc' = [pc EXCEPT ![th] = "writefail"]
                  /\ call' = [call EXCEPT ![th].err = "error"]
                  /\ UNCHANGED <<files, ol, locks, mu, last>>
             ELSE /\ files' = IF files[key].creator = h
                              THEN [files EXCEPT ![key].pid = Proc(th)]
                              ELSE files
                  /\ ol' = [ol EXCEPT ![h].returned = TRUE]
                  /\ locks' = [locks EXCEPT ![Proc(th)][key] = h]
                  /\ Return(th, Result(th, "acquire", "ok"))
        /\ UNCHANGED <<alive, fsFaults>>

\* acquire, lines 168-170: file.Close() and os.Remove(ol.lockPath) after the
\* failed write.
WriteFailRemove(th) ==
    /\ Running(th)
    /\ UNCHANGED notLockVars
    /\ pc[th] = "writefail"
    /\ files' = Remove(ol[call[th].h].key)
    /\ pc' = [pc EXCEPT ![th] = "cleanup"]
    /\ UNCHANGED <<alive, locks, mu, ol, call, last, fsFaults>>

\* acquire, line 200: time.Sleep(ol.retryDelay), and back to the loop's top.
Sleep(th) ==
    /\ call' = [call EXCEPT ![th].elapsed = @ + RetryDelay]
    /\ pc' = [pc EXCEPT ![th] = "create"]

\* acquire, lines 194-200, the staleness check: readLockInfo and the
\* liveness probe; a lock that is not stale is slept on.
CheckStale(th) ==
    /\ Running(th)
    /\ UNCHANGED notLockVars
    /\ pc[th] = "stale"
    /\ IF isLockStale(ol[call[th].h].key)
       THEN /\ pc' = [pc EXCEPT ![th] = "unstale"]
            /\ UNCHANGED call
       ELSE Sleep(th)
    /\ UNCHANGED <<alive, files, locks, mu, ol, last, fsFaults>>

\* cleanupStaleLock, line 260, and lines 195-200: os.Remove(ol.lockPath); on
\* success the loop continues at once, on an error (the file is gone) the
\* thread sleeps.
CleanupStaleLock(th) ==
    LET key == ol[call[th].h].key
    IN  /\ Running(th)
        /\ UNCHANGED notLockVars
        /\ pc[th] = "unstale"
        /\ files' = Remove(key)
        /\ IF files[key] # NoFile
           THEN /\ pc' = [pc EXCEPT ![th] = "create"]
                /\ UNCHANGED call
           ELSE Sleep(th)
        /\ UNCHANGED <<alive, locks, mu, ol, last, fsFaults>>

\* AcquireLock, lines 82-85: acquire failed, so lock.cleanup() runs (its
\* result is dropped) and the error is returned.  cleanup, lines 219-237,
\* closes the descriptor if there is one and removes the path.
AcquireFailed(th) ==
    LET h == call[th].h
    IN  /\ Running(th)
        /\ UNCHANGED notLockVars
        /\ pc[th] = "cleanup"
        /\ \E removeErr \in Faults :
             files' = IF removeErr THEN files ELSE Remove(ol[h].key)
        /\ ol' = [ol EXCEPT ![h].lockFile = FALSE]
        /\ Return(th, Result(th, "acquire", call[th].err))
        /\ UNCHANGED <<alive, locks, fsFaults>>

\* ------------------------------------------------- ReleaseLock, ReleaseAll

\* cleanup, lines 219-237, as Release calls it: whether it returns an error.
\* Close fails only by an injected error; Remove of a missing file is no
\* error (os.IsNotExist).
cleanupFails(h, closeErr, removeErr) ==
    \/ ol[h].lockFile /\ closeErr
    \/ files[ol[h].key] # NoFile /\ removeErr

\* A Release whose cleanup leaves the lock file where it is.
ReleaseKeepsFile(h, closeErr, removeErr) ==
    IF ~ol[h].acquired
    THEN UNCHANGED <<files, ol>>
    ELSE /\ files' = files
         /\ ol' = [ol EXCEPT ![h].acquired = FALSE, ![h].lockFile = FALSE]

\* A Release that leaves the handle acquired.
ReleaseStaysAcquired(h, closeErr, removeErr) ==
    IF ~ol[h].acquired
    THEN UNCHANGED <<files, ol>>
    ELSE /\ files' = IF removeErr THEN files ELSE Remove(ol[h].key)
         /\ ol' = [ol EXCEPT ![h].lockFile = FALSE]

\* A Release without the check of line 209.
ReleaseUnchecked(h, closeErr, removeErr) ==
    /\ files' = IF removeErr THEN files ELSE Remove(ol[h].key)
    /\ ol' = [ol EXCEPT ![h].acquired = FALSE, ![h].lockFile = FALSE]

\* Release, lines 205-216: nothing for a handle that is not acquired;
\* otherwise cleanup, and acquired = false whatever cleanup returned.
Release(h, closeErr, removeErr) ==
    IF ~ol[h].acquired
    THEN UNCHANGED <<files, ol>>
    ELSE /\ files' = IF removeErr THEN files ELSE Remove(ol[h].key)
         /\ ol' = [ol EXCEPT ![h].acquired = FALSE, ![h].lockFile = FALSE]

ReleaseFails(h, closeErr, removeErr) ==
    ol[h].acquired /\ cleanupFails(h, closeErr, removeErr)

\* The handles AcquireLock has returned to process p.
Returned(p) == {h \in HandleIds : h[1] = p /\ ol[h].returned}

\* lines 101-106: the table without the entry that tracks handle h.
Untrack(table, h) == [k \in LockKeys |-> IF table[k] = h THEN NoHandle ELSE table[k]]

\* ReleaseLock, lines 92-109.  ReleaseLock(nil) returns before taking lm.mu.
ReleaseLock(th, h) ==
    LET p == Proc(th)
    IN  /\ Running(th)
        /\ UNCHANGED notLockVars
        /\ pc[th] = "idle"
        /\ IF h = NoHandle
           THEN /\ last' = [Result(th, "release", "ok") EXCEPT !.noop = "nil"]
                /\ UNCHANGED <<files, ol, locks>>
           ELSE /\ mu[p] = NoThread
                /\ locks' = [locks EXCEPT ![p] = Untrack(locks[p], h)]
                /\ \E closeErr \in Faults, removeErr \in Faults :
                     /\ Release(h, closeErr, removeErr)
                     /\ last' = [Result(th, "release",
                                         IF ReleaseFails(h, closeErr, removeErr)
                                         THEN "error" ELSE "ok")
                                  EXCEPT !.noop = IF ol[h].acquired THEN ""
                                                  ELSE "released"]
        /\ UNCHANGED <<alive, mu, pc, call, fsFaults>>

\* A ReleaseAll that gives up at the first Release that fails.
ReleaseAllTurnStopping(th, c) ==
    \E h \in c.pending :
      \E closeErr \in Faults, removeErr \in Faults :
        LET fails == ReleaseFails(h, closeErr, removeErr)
            failed == IF fails THEN c.failed \cup {h} ELSE c.failed
            tracked == {locks[Proc(th)][k] : k \in LockKeys} \ {NoHandle}
        IN  /\ Release(h, closeErr, removeErr)
            /\ IF c.pending = {h} \/ fails
               THEN /\ locks' = [locks EXCEPT ![Proc(th)] = [k \in LockKeys |-> NoHandle]]
                    /\ Return(th, [Result(th, "releaseall",
                                          IF failed = {} THEN "ok" ELSE "error")
                                   EXCEPT !.tracked = tracked, !.failed = failed])
               ELSE /\ locks' = locks
                    /\ mu' = [mu EXCEPT ![Proc(th)] = th]
                    /\ pc' = [pc EXCEPT ![th] = "releaseall"]
                    /\ call' = [call EXCEPT ![th] =
                                  [c EXCEPT !.pending = @ \ {h}, !.failed = failed]]
                    /\ last' = last

\* ReleaseAll, lines 117-129: one turn of the loop over lm.locks, in the
\* map's order (any); c is the call so far.  After the last turn the table is
\* replaced by an empty one and the errors, if any, are returned as one.
ReleaseAllTurn(th, c) ==
    \E h \in c.pending :
      \E closeErr \in Faults, removeErr \in Faults :
        LET failed == IF ReleaseFails(h, closeErr, removeErr)
                      THEN c.failed \cup {h} ELSE c.failed
            tracked == {locks[Proc(th)][k] : k \in LockKeys} \ {NoHandle}
        IN  /\ Release(h, closeErr, removeErr)
            /\ IF c.pending = {h}
               THEN /\ locks' = [locks EXCEPT ![Proc(th)] = [k \in LockKeys |-> NoHandle]]
                    /\ Return(th, [Result(th, "releaseall",
                                          IF failed = {} THEN "ok" ELSE "error")
                                   EXCEPT !.tracked = tracked, !.failed = failed])
               ELSE /\ locks' = locks
                    /\ mu' = [mu EXCEPT ![Proc(th)] = th]
                    /\ pc' = [pc EXCEPT ![th] = "releaseall"]
                    /\ call' = [call EXCEPT ![th] =
                                  [c EXCEPT !.pending = @ \ {h}, !.failed = failed]]
                    /\ last' = last

\* ReleaseAll, lines 112-129: take lm.mu and range over lm.locks; with an
\* empty table there is nothing to release.
ReleaseAll(th) ==
    LET p == Proc(th)
        tracked == {locks[p][k] : k \in LockKeys} \ {NoHandle}
    IN  /\ Running(th)
        /\ UNCHANGED notLockVars
        /\ pc[th] = "idle"
        /\ mu[p] = NoThread
        /\ IF tracked = {}
           THEN /\ last' = Result(th, "releaseall", "ok")
                /\ UNCHANGED <<files, locks, mu, ol, pc, call>>
           ELSE ReleaseAllTurn(th, [NoCall EXCEPT !.pending = tracked])
        /\ UNCHANGED <<alive, fsFaults>>

\* ReleaseAll, lines 117-129: a later turn of the loop.
ReleaseAllNext(th) ==
    /\ Running(th)
    /\ UNCHANGED notLockVars
    /\ pc[th] = "releaseall"
    /\ ReleaseAllTurn(th, call[th])
    /\ UNCHANGED <<alive, fsFaults>>

\* ------------------------------------------------------------ environment

\* A process dies (kill -9, power loss): its threads stop where they are and
\* its lock files stay behind.
Crash(p) ==
    /\ p \in Crashable
    /\ alive[p]
    /\ UNCHANGED notLockVars
    /\ alive' = [alive EXCEPT ![p] = FALSE]
    /\ UNCHANGED <<files, locks, mu, ol, pc, call, last, fsFaults>>

\* ------------------------------------------------------ the specifications

Next ==
    \/ \E th \in Threads, r \in Requests, timeout \in Timeouts :
         AcquireLock(th, r[1], r[2], timeout)
    \/ \E th \in Threads : TryCreate(th)
    \/ \E th \in Threads : WriteLockInfo(th)
    \/ \E th \in Threads : CheckStale(th)
    \/ \E th \in Threads : CleanupStaleLock(th)
    \/ \E th \in Threads : AcquireFailed(th)
    \/ \E th \in Threads : \E h \in Returned(Proc(th)) \cup {NoHandle} : ReleaseLock(th, h)
    \/ \E th \in Threads : ReleaseAll(th)
    \/ \E th \in Threads : ReleaseAllNext(th)
    \/ \E p \in Procs : Crash(p)

\* The lock manager on a file system whose Close, Remove and WriteString do
\* not fail.
Spec == Init /\ [][Next]_vars

\* One process of two threads, with injected I/O errors in cleanup() and in
\* the write of the lock record.
InitFaults ==
    /\ \E s \in {x \in Starts : x.threads = {<<1, 1>>, <<1, 2>>}} :
          StartState(s, TRUE)
    /\ args = <<>>
    /\ keys = <<>>
    /\ NoneCalled
    /\ NewRollbackManager

NextFaults ==
    \/ Next
    \/ \E th \in Threads : WriteFailRemove(th)

SpecFaults == InitFaults /\ [][NextFaults]_vars

\* ---------------------------------------------------- generateLockKey alone

\* Two calls of generateLockKey with any kinds and paths, no lock being taken.
InitKey ==
    /\ StartState([threads |-> {}, file |-> NoFile], FALSE)
    /\ args \in (LockTypes \X TargetPaths) \X (LockTypes \X TargetPaths)
    /\ keys = <<>>
    /\ NoneCalled
    /\ NewRollbackManager

ComputeKeys ==
    /\ keys = <<>>
    /\ keys' = <<generateLockKey(args[1][1], args[1][2]),
                 generateLockKey(args[2][1], args[2][2])>>
    /\ UNCHANGED <<lockVars, args, local, rmVars, addVars, exec>>

NextKey == ComputeKeys

SpecKey == InitKey /\ [][NextKey]_vars

\* ------------------------------------------------- the contention test

\* TestLockManager_ConcurrentAccess, lock_test.go lines 66-110: goroutines
\* of one process call AcquireLock for the same kind and path on one
\* manager; one that succeeds counts itself, keeps the lock for 50ms and
\* calls ReleaseLock, one that fails counts itself and ends.
Goroutines == {th \in Threads : Proc(th) = 1}

\* The goroutine whose call has returned and that has not yet looked at
\* what it returned; no other goroutine's call returns before it has.
Unseen(th) ==
    /\ last.th = th
    /\ \/ last.op = "acquire" /\ local[th].at = "fresh"
       \/ last.op = "release" /\ local[th].at = "held"
Quiet == \A th \in Goroutines : ~Unseen(th)

\* lines 83-84: lm.AcquireLock(LockTypeCreate, targetPath, timeout).
GoAcquire(th, timeout) ==
    /\ Quiet
    /\ local[th].at = "fresh"
    /\ AcquireLock(th, LockTypeCreate, "/repo/A", timeout)

\* lines 85-94 and 99: the goroutine looks at what its call returned.
See(th) ==
    /\ Unseen(th)
    /\ local' =
          [local EXCEPT ![th] =
              IF last.op = "release" THEN [@ EXCEPT !.at = "released"]
              ELSE [at |-> IF last.res = "ok" THEN "acquired" ELSE "failed",
                    h |-> IF last.res = "ok" THEN locks[Proc(th)][TheKey]
                          ELSE NoHandle,
                    busy |-> \E o \in Goroutines \ {th} :
                                local[o].at \in {"acquired", "held"},
                    late |-> \E o \in Goroutines \ {th} :
                                local[o].at = "released"]]
    /\ UNCHANGED <<lockVars, keyVars, rmVars, addVars, exec>>

\* line 97: time.Sleep(50 * time.Millisecond).
Hold(th) ==
    /\ local[th].at = "acquired"
    /\ local' = [local EXCEPT ![th].at = "held"]
    /\ UNCHANGED <<lockVars, keyVars, rmVars, addVars, exec>>

\* line 99: lm.ReleaseLock(lock).
GoRelease(th) ==
    /\ Quiet
    /\ local[th].at = "held"
    /\ ReleaseLock(th, local[th].h)

InitContend ==
    /\ StartState([threads |-> Goroutines, file |-> NoFile], FALSE)
    /\ args = <<>>
    /\ keys = <<>>
    /\ NoneCalled
    /\ NewRollbackManager

NextContend ==
    \/ \E th \in Goroutines, timeout \in Timeouts : GoAcquire(th, timeout)
    \/ \E th \in Goroutines : WriteLockInfo(th)
    \/ \E th \in Goroutines : See(th)
    \/ \E th \in Goroutines : Hold(th)
    \/ \E th \in Goroutines : GoRelease(th)

SpecContend == InitContend /\ [][NextContend]_vars

\* ------------------------------------------------------ the rollback manager

\* All methods hold rm.mu from entry to return, so each is one step.
notRmVars == <<lockVars, keyVars, local, addVars, exec>>

\* The four AddXCleanup methods (lines 54-70, 73-89, 92-108, 111-132) append
\* an operation whose ID is the length of the ledger; they differ in Type,
\* Description, Action and Critical.
rollbackAddCleanup(critical) ==
    /\ added < MaxOps
    /\ operations' = Append(operations,
          [Critical |-> critical, ID |-> Len(operations), DependsOn |-> {},
           serial |-> added + 1])
    /\ added' = added + 1
    /\ ret' = NoReturn
    /\ UNCHANGED <<dependencies, failFast, failFastExplicitlySet, lastError,
                   invocations>>

\* A call from outside the Manager: nothing else changes.
AddCleanup(critical) ==
    /\ rollbackAddCleanup(critical)
    /\ UNCHANGED notRmVars

AddWorktreeCleanup == AddCleanup(TRUE)
AddBranchCleanup == AddCleanup(FALSE)
AddFileCleanup == AddCleanup(TRUE)
AddLinkCleanup == AddCleanup(FALSE)

\* AddDependency, lines 313-326: a dependentID beyond the ledger is ignored,
\* dependsOnID is not looked at.  A negative dependentID passes the test of
\* line 317 and indexes rm.operations at line 318, where the run-time
\* panics (index out of range); the deferred Unlock of line 315 runs and
\* the manager is as before.
AddDependency(dependentID, dependsOnID) ==
    /\ IF dependentID < Len(operations)
       THEN IF dependentID < 0
            THEN /\ ret' = Panicked
                 /\ UNCHANGED <<operations, dependencies>>
            ELSE /\ Cardinality(dependencies \cup {<<dependsOnID, dependentID>>})
                       <= MaxDeps
                 /\ operations' =
                       [operations EXCEPT ![dependentID + 1].DependsOn =
                                               @ \cup {dependsOnID}]
                 /\ dependencies' =
                       dependencies \cup {<<dependsOnID, dependentID>>}
                 /\ ret' = NoReturn
       ELSE /\ UNCHANGED <<operations, dependencies>>
            /\ ret' = NoReturn
    /\ UNCHANGED <<failFast, failFastExplicitlySet, lastError, added,
                   invocations>>
    /\ UNCHANGED notRmVars

\* SetFailFast, lines 329-334.
SetFailFast(b) ==
    /\ failFast' = b
    /\ failFastExplicitlySet' = TRUE
    /\ ret' = NoReturn
    /\ UNCHANGED <<operations, dependencies, lastError, added, invocations>>
    /\ UNCHANGED notRmVars

\* HasOperations, GetOperations (the serials stand for the descriptions) and
\* GetLastError, lines 294-310 and 337-341.
HasOperations == Len(operations) > 0
GetOperations == [i \in 1..Len(operations) |-> operations[i].serial]
GetLastError == lastError

\* shouldSkipOperation, lines 344-352.
shouldSkipNever(op, failed) == FALSE
shouldSkipOperation(op, failed) == op.DependsOn \cap failed # {}

\* The locals of one Execute: the executed and failed maps as sets of IDs,
\* len(errors), rm.lastError, whether it returned from line 169; and, for
\* the record, the IDs whose actions were invoked, in order, and the pass
\* in which each was invoked, those whose
\* action returned an error, those given a dependency-constraint error, and
\* the number of passes of the loop of line 213.
RunStart(previous) ==
    [executed |-> {}, failed |-> {}, nerr |-> 0, last |-> previous,
     aborted |-> FALSE, invoked |-> <<>>, round |-> <<>>, errored |-> {},
     stuck |-> {}, passes |-> 0]

\* op.Action() returns nil (lines 177, 201, 242).
Succeeds(op, run) ==
    [run EXCEPT !.invoked = Append(@, op.ID), !.round = Append(@, run.passes),
                !.executed = @ \cup {op.ID}]

\* op.Action() returns an error that is recorded (lines 163-164 and 173-174,
\* 196-199, 237-240).
FailsForgotten(op, run) ==
    [run EXCEPT !.invoked = Append(@, op.ID), !.round = Append(@, run.passes),
                !.errored = @ \cup {op.ID},
                !.failed = @ \cup {op.ID}, !.nerr = @ + 1]
\* An error of op.Action() that is not appended to errors.
FailsUncounted(op, run) ==
    [run EXCEPT !.invoked = Append(@, op.ID), !.round = Append(@, run.passes),
                !.errored = @ \cup {op.ID},
                !.failed = @ \cup {op.ID},
                !.last = ActionError(op)]
FailsStopping(op, run) ==
    [run EXCEPT !.invoked = Append(@, op.ID), !.round = Append(@, run.passes),
                !.errored = @ \cup {op.ID},
                !.failed = @ \cup {op.ID}, !.nerr = @ + 1,
                !.last = ActionError(op), !.aborted = TRUE]
Fails(op, run) ==
    [run EXCEPT !.invoked = Append(@, op.ID), !.round = Append(@, run.passes),
                !.errored = @ \cup {op.ID},
                !.failed = @ \cup {op.ID}, !.nerr = @ + 1,
                !.last = ActionError(op)]

\* op.Action() returns an error and Execute returns at once (lines 163-170).
AbortsContinuing(op, run) ==
    [run EXCEPT !.invoked = Append(@, op.ID), !.round = Append(@, run.passes),
                !.errored = @ \cup {op.ID},
                !.failed = @ \cup {op.ID}, !.nerr = @ + 1,
                !.last = ActionError(op)]
Aborts(op, run) ==
    [run EXCEPT !.invoked = Append(@, op.ID), !.round = Append(@, run.passes),
                !.errored = @ \cup {op.ID},
                !.last = ActionError(op), !.aborted = TRUE]

\* Phase 1, lines 150-179, from index i down; fails are the IDs whose action
\* returns an error when invoked.
RECURSIVE CriticalPhase(_, _, _, _, _)
CriticalPhase(ops, i, run, fails, explicit) ==
    IF i = 0 \/ run.aborted THEN run
    ELSE LET op == ops[i]
         IN  IF ~op.Critical \/ shouldSkipOperation(op, run.failed)
             THEN CriticalPhase(ops, i - 1, run, fails, explicit)
             ELSE IF op.ID \notin fails
             THEN CriticalPhase(ops, i - 1, Succeeds(op, run), fails, explicit)
             ELSE IF explicit
             THEN Aborts(op, run)
             ELSE CriticalPhase(ops, i - 1, Fails(op, run), fails, explicit)

\* Phase 2, lines 183-203, from index i down.
RECURSIVE NonCriticalPhase(_, _, _, _)
NonCriticalPhase(ops, i, run, fails) ==
    IF i = 0 THEN run
    ELSE LET op == ops[i]
         IN  IF \/ op.Critical
                \/ op.ID \in run.executed
                \/ shouldSkipOperation(op, run.failed)
             THEN NonCriticalPhase(ops, i - 1, run, fails)
             ELSE IF op.ID \notin fails
             THEN NonCriticalPhase(ops, i - 1, Succeeds(op, run), fails)
             ELSE NonCriticalPhase(ops, i - 1, Fails(op, run), fails)

\* The fail-fast branch, lines 148-204.
FailFastPhasesNonCriticalFirst(ops, run, fails, explicit) ==
    CriticalPhase(ops, Len(ops), NonCriticalPhase(ops, Len(ops), run, fails),
                  fails, explicit)
\* A fail-fast branch that never starts phase 2 after SetFailFast(true).
FailFastPhasesStrictStops(ops, run, fails, explicit) ==
    LET one == CriticalPhase(ops, Len(ops), run, fails, explicit)
    IN  IF one.aborted \/ explicit THEN one
        ELSE NonCriticalPhase(ops, Len(ops), one, fails)
FailFastPhases(ops, run, fails, explicit) ==
    LET one == CriticalPhase(ops, Len(ops), run, fails, explicit)
    IN  IF one.aborted THEN one
        ELSE IF ~explicit \/ one.nerr = 0
        THEN NonCriticalPhase(ops, Len(ops), one, fails)
        ELSE one

\* canExecute, lines 226-232.
canExecuteAlways(op, run) == TRUE
canExecute(op, run) == op.DependsOn \subseteq (run.executed \cup run.failed)

\* One pass over remaining, lines 217-249: rest is what is left to visit and
\* kept is newRemaining, both as sequences of indices.
RECURSIVE Pass(_, _, _, _, _, _)
Pass(ops, rest, kept, run, progress, fails) ==
    IF rest = <<>>
    THEN [run |-> run, remaining |-> kept, progress |-> progress]
    ELSE LET op == ops[Head(rest) + 1]
         IN  IF shouldSkipOperation(op, run.failed)
             THEN Pass(ops, Tail(rest), kept, run, progress, fails)
             ELSE IF ~canExecute(op, run)
             THEN Pass(ops, Tail(rest), Append(kept, Head(rest)), run,
                       progress, fails)
             ELSE IF op.ID \notin fails
             THEN Pass(ops, Tail(rest), kept, Succeeds(op, run), TRUE, fails)
             ELSE Pass(ops, Tail(rest), kept, Fails(op, run), TRUE, fails)

\* The operations that remain when a pass made no progress, lines 255-261.
RECURSIVE Constrained(_, _, _)
Constrained(ops, rest, run) ==
    IF rest = <<>> THEN run
    ELSE LET op == ops[Head(rest) + 1]
         IN  Constrained(ops, Tail(rest),
                 [run EXCEPT !.failed = @ \cup {op.ID},
                             !.stuck = @ \cup {op.ID},
                             !.nerr = @ + 1,
                             !.last = ConstraintError(op)])

\* The dependency-aware branch, lines 213-264.
RECURSIVE DependencyAware(_, _, _, _)
DependencyAware(ops, remaining, run, fails) ==
    IF remaining = <<>> THEN run
    ELSE LET p == Pass(ops, remaining, <<>>,
                       [run EXCEPT !.passes = @ + 1], FALSE, fails)
         IN  IF ~p.progress /\ p.remaining # <<>>
             THEN Constrained(ops, p.remaining, p.run)
             ELSE DependencyAware(ops, p.remaining, p.run, fails)

\* clearOperations, lines 287-291: lastError stays.
clearOperationsKeeping == UNCHANGED <<operations, dependencies>>
clearOperations ==
    /\ operations' = <<>>
    /\ dependencies' = {}

\* How Execute runs: "resilient" is the default, "strict" after
\* SetFailFast(true), "deps" after SetFailFast(false).
Mode ==
    IF ~failFast THEN "deps"
    ELSE IF failFastExplicitlySet THEN "strict" ELSE "resilient"

\* How often id occurs in the sequence s.
Count(s, id) == Cardinality({i \in 1..Len(s) : s[i] = id})

\* The IDs of the ledger, and the critical ones.
IDs == 0..(Len(operations) - 1)
CriticalIDs == {i \in IDs : operations[i + 1].Critical}

\* What the operation with this ID was declared to depend on (nothing if
\* the ID is not in the ledger), directly and through chains.
DirectDeps(i) == IF i \in IDs THEN operations[i + 1].DependsOn ELSE {}
RECURSIVE Through(_, _)
Through(S, k) ==
    IF k = 0 \/ \A i \in S : DirectDeps(i) \subseteq S THEN S
    ELSE Through(S \cup UNION {DirectDeps(i) : i \in S}, k - 1)
AllDeps(i) == Through(DirectDeps(i), Len(operations))

\* No operation depends on itself, directly or through a chain; none
\* depends on an ID that is not in the ledger.
Acyclic == \A i \in IDs : i \notin AllDeps(i)
NoneMissing == \A i \in IDs : DirectDeps(i) \subseteq IDs

\* The operation lies on a cycle, or depends on one that does, or on an ID
\* that is not in the ledger.
Blocked(x) ==
    \E y \in {x} \cup AllDeps(x) : y \notin IDs \/ y \in AllDeps(y)

\* The loops of Execute, lines 143-265, on a ledger that is not empty.
Loops(fails) ==
    IF failFast
    THEN FailFastPhases(operations, RunStart(lastError), fails,
                        failFastExplicitlySet)
    ELSE DependencyAware(operations, [i \in 1..Len(operations) |-> i - 1],
                         RunStart(lastError), fails)

\* Execute, lines 135-277, when the actions of the operations with IDs in
\* fails return an error.
rollbackExecute(fails) ==
    LET ops == operations
        n == Len(ops)
    IN  /\ IF n = 0
           THEN /\ UNCHANGED <<operations, dependencies, lastError, invocations>>
                /\ ret' = [NoReturn EXCEPT !.call = "execute", !.mode = Mode]
           ELSE \E run \in {Loops(fails)} :
                /\ clearOperations
                /\ lastError' = run.last
                /\ invocations' =
                      [s \in 1..MaxOps |->
                          invocations[s]
                          + IF \E i \in 1..n : ops[i].serial = s
                            THEN Count(run.invoked,
                                       (CHOOSE i \in 1..n : ops[i].serial = s) - 1)
                            ELSE 0]
                /\ ret' = [call |-> "execute", mode |-> Mode, n |-> n,
                           critical |-> CriticalIDs,
                           ndeps |-> Cardinality(dependencies),
                           cyclic |-> ~Acyclic, missing |-> ~NoneMissing,
                           invoked |-> run.invoked, round |-> run.round,
                           errored |-> run.errored,
                           stuck |-> run.stuck, nerr |-> run.nerr,
                           passes |-> run.passes,
                           err |-> IF run.aborted THEN "critical"
                                   ELSE IF run.nerr > 0 THEN "aggregate"
                                   ELSE "nil"]
        /\ UNCHANGED <<failFast, failFastExplicitlySet, added>>

Execute(fails) ==
    /\ rollbackExecute(fails)
    /\ UNCHANGED notRmVars

\* Clear, lines 280-284.
rollbackClear ==
    /\ clearOperations
    /\ ret' = NoReturn
    /\ UNCHANGED <<failFast, failFastExplicitlySet, lastError, added, invocations>>

Clear ==
    /\ rollbackClear
    /\ UNCHANGED notRmVars

InitRollback ==
    /\ StartState([threads |-> {}, file |-> NoFile], FALSE)
    /\ args = <<>>
    /\ keys = <<>>
    /\ NoneCalled
    /\ NewRollbackManager

NextRollback ==
    \/ AddWorktreeCleanup
    \/ AddBranchCleanup
    \/ AddFileCleanup
    \/ AddLinkCleanup
    \/ \E dependentID \in 0..(Len(operations) - 1), dependsOnID \in 0..MaxOps :
          AddDependency(dependentID, dependsOnID)
    \/ AddDependency(Len(operations), 0)
    \/ \E b \in BOOLEAN : SetFailFast(b)
    \/ \E fails \in SUBSET (0..(Len(operations) - 1)) : Execute(fails)
    \/ Clear

SpecRollback == InitRollback /\ [][NextRollback]_vars

\* The same calls, and AddDependency with any integers: negative IDs and IDs
\* beyond the ledger, for the dependent and for the operation depended on.
NextArgs ==
    \/ NextRollback
    \/ \E dependentID \in -1..MaxOps, dependsOnID \in -1..MaxOps :
          AddDependency(dependentID, dependsOnID)

SpecArgs == InitRollback /\ [][NextArgs]_vars

\* ------------------------------------------- concurrent AddXCleanup calls

\* TestRollbackManager_ConcurrentAccess, rollback_test.go lines 259-285, with
\* any of the four methods: goroutines call AddXCleanup on one manager.  The
\* statements of a method are separate steps; rm.mu is what keeps the steps
\* of two calls apart.

\* A Lock that never waits.
rmLockUnguarded(g) == TRUE
\* rm.mu.Lock() returns: no goroutine holds rm.mu.
rmLock(g) == rmMu = NoAdder

\* Critical of the operation each method builds (lines 65, 84, 103, 127).
CriticalOf(type) == type \in {RollbackRemoveWorktree, RollbackRemoveFiles}

\* rm.mu.Lock() at the top of the method called (lines 55, 74, 93, 112).
AddLock(g, type) ==
    /\ adders[g].at = "go"
    /\ rmLock(g)
    /\ rmMu' = g
    /\ adders' = [adders EXCEPT ![g] = [at |-> "locked", type |-> type, id |-> -1]]
    /\ UNCHANGED <<lockVars, keyVars, local, rmVars, exec>>

\* id := len(rm.operations) (lines 58, 77, 96, 115).
AddLen(g) ==
    /\ adders[g].at = "locked"
    /\ adders' = [adders EXCEPT ![g].at = "len", ![g].id = Len(operations)]
    /\ UNCHANGED <<lockVars, keyVars, local, rmVars, rmMu, exec>>

\* rm.operations = append(rm.operations, op), op built with ID: id (lines
\* 59-68, 78-87, 97-106, 116-130).
AddAppend(g) ==
    /\ adders[g].at = "len"
    /\ operations' = Append(operations,
          [Critical |-> CriticalOf(adders[g].type), ID |-> adders[g].id,
           DependsOn |-> {}, serial |-> added + 1])
    /\ added' = added + 1
    /\ adders' = [adders EXCEPT ![g].at = "appended"]
    /\ UNCHANGED <<dependencies, failFast, failFastExplicitlySet, lastError,
                   invocations, ret>>
    /\ UNCHANGED <<lockVars, keyVars, local, rmMu, exec>>

\* return id, and the deferred rm.mu.Unlock() (lines 56 and 69, 75 and 88,
\* 94 and 107, 113 and 131).
AddReturn(g) ==
    /\ adders[g].at = "appended"
    /\ rmMu' = NoAdder
    /\ adders' = [adders EXCEPT ![g].at = "done"]
    /\ UNCHANGED <<lockVars, keyVars, local, rmVars, exec>>

InitAdd ==
    /\ StartState([threads |-> {}, file |-> NoFile], FALSE)
    /\ args = <<>>
    /\ keys = <<>>
    /\ NoneCalled
    /\ NewRollbackManager

NextAdd ==
    \/ \E g \in Adders, type \in RollbackTypes : AddLock(g, type)
    \/ \E g \in Adders : AddLen(g)
    \/ \E g \in Adders : AddAppend(g)
    \/ \E g \in Adders : AddReturn(g)

SpecAdd == InitAdd /\ [][NextAdd]_vars

\* ------------------------------------------------ the Manager's operations

\* Manager.Create and Manager.Delete (part_003) and
\* PRManager.CreatePRWorktree (part_005), run by the one thread of process 1
\* on the Manager's LockManager and RollbackManager, next to a thread of
\* process 2 that takes and releases locks on the same path.
Executor == <<1, 1>>
Competitor == <<2, 1>>
ExecThreads == {Executor, Competitor}

\* getOperationTimeout, lines 1188-1193: the configured timeout when it is
\* positive, else 30 seconds.
OperationTimeouts == 1..MaxTimeout

\* The kind each operation locks with (lines 141, 260), on the worktree path.
ExecLockType(op) == IF op = "create" THEN LockTypeCreate ELSE LockTypeDelete
ExecKey(op) == generateLockKey(ExecLockType(op), "/repo/A")

\* An AcquireLock or ReleaseLock of the executor has returned and the
\* executor has not yet looked at what it returned.
ExecUnseen ==
    /\ last.th = Executor
    /\ \/ exec.at = "lock" /\ last.op = "acquire"
       \/ exec.at = "release" /\ last.op = "release"

\* A return that runs no deferred function.
LeavesUnreleased(e, err) == [e EXCEPT !.err = err, !.at = "returned"]

\* The operation as it is when its body returns err: the deferred function
\* of lines 144-148 (263-267) runs next if there is one.
Leaves(e, err) ==
    [e EXCEPT !.err = err,
              !.at = IF e.h = NoHandle THEN "returned" ELSE "release"]

\* What the executor's steps leave alone besides the rollback manager.
notExecVars == <<lockVars, keyVars, local, addVars>>

\* Create, lines 110-139: validateCreateOptions and generateWorktreePath,
\* either of which may return an error; m.lockManager may be nil.
CreateValidate(valid, nolock) ==
    /\ exec = NotStarted
    /\ exec' = IF ~valid
               THEN [NotStarted EXCEPT !.op = "create", !.at = "returned",
                                       !.err = "validation"]
               ELSE [NotStarted EXCEPT !.op = "create", !.nolock = nolock,
                                       !.at = IF nolock THEN "clear" ELSE "lock"]
    /\ UNCHANGED <<notExecVars, rmVars>>

\* Delete, lines 240-258: validateDeleteOptions, resolveWorktree and the
\* main-repository check, any of which may return an error.
DeleteValidate(valid, nolock) ==
    /\ exec = NotStarted
    /\ exec' = IF ~valid
               THEN [NotStarted EXCEPT !.op = "delete", !.at = "returned",
                                       !.err = "validation"]
               ELSE [NotStarted EXCEPT !.op = "delete", !.nolock = nolock,
                                       !.at = IF nolock THEN "body" ELSE "lock"]
    /\ UNCHANGED <<notExecVars, rmVars>>

\* lines 140-141 and 259-260: m.lockManager.AcquireLock(kind, path, timeout).
ExecAcquire(timeout) ==
    /\ exec.at = "lock"
    /\ ~ExecUnseen
    /\ AcquireLock(Executor, ExecLockType(exec.op), "/repo/A", timeout)

\* lines 142-148 and 261-267: an error of AcquireLock is returned; else the
\* release of operationLock is deferred and the body begins.
ExecLocked ==
    /\ exec.at = "lock"
    /\ ExecUnseen
    /\ exec' = IF last.res = "ok"
               THEN [exec EXCEPT !.h = locks[Proc(Executor)][ExecKey(exec.op)],
                                 !.at = IF exec.op = "create" THEN "clear"
                                        ELSE "body"]
               ELSE [exec EXCEPT !.err = "lock", !.at = "returned"]
    /\ UNCHANGED <<notExecVars, rmVars>>

\* Create, line 153: m.rollback.Clear().
CreateClear ==
    /\ exec.op = "create" /\ exec.at = "clear"
    /\ rollbackClear
    /\ exec' = [exec EXCEPT !.at = "path"]
    /\ UNCHANGED notExecVars

\* The ways atomicPathPreparation ends, lines 880-919: the directory is
\* created (889-892), or created after the existing path was removed
\* (907-918); the path exists and force is not set (901-904), or MkdirAll,
\* Mkdir or RemoveAll fails.
PathOutcomes == {"created", "replaced", "exists", "error"}

\* Create, lines 156-158, and atomicPathPreparation.
CreatePath(outcome) ==
    /\ exec.op = "create" /\ exec.at = "path"
    /\ IF outcome \in {"created", "replaced"}
       THEN /\ rollbackAddCleanup(TRUE)
            /\ exec' = [exec EXCEPT !.appended = @ + 1, !.at = "branch"]
       ELSE /\ UNCHANGED rmVars
            /\ exec' = Leaves(exec, "path")
    /\ UNCHANGED notExecVars

\* The ways lines 160-174 end: the branch exists; it does not and
\* options.CreateBranch is not set; CreateBranch fails; the branch is created.
BranchOutcomes == {"exists", "missing", "failed", "created"}

\* Create, lines 160-174.
CreateBranch(outcome) ==
    /\ exec.op = "create" /\ exec.at = "branch"
    /\ CASE outcome = "exists" ->
              /\ UNCHANGED rmVars
              /\ exec' = [exec EXCEPT !.at = "prehook"]
         [] outcome = "created" ->
              /\ rollbackAddCleanup(FALSE)
              /\ exec' = [exec EXCEPT !.branchCreated = TRUE,
                                      !.appended = @ + 1, !.at = "prehook"]
         [] OTHER ->
              /\ UNCHANGED rmVars
              /\ exec' = Leaves(exec, "branch")
    /\ UNCHANGED notExecVars

\* Create, lines 177-184: the pre-create hooks; when they fail the ledger is
\* executed if the branch was created.
CreatePreHook(ok, fails) ==
    /\ exec.op = "create" /\ exec.at = "prehook"
    /\ IF ok
       THEN /\ UNCHANGED rmVars
            /\ exec' = [exec EXCEPT !.at = "worktree"]
       ELSE /\ IF exec.branchCreated THEN rollbackExecute(fails)
               ELSE UNCHANGED rmVars
            /\ exec' = Leaves(exec, "hook")
    /\ UNCHANGED notExecVars

\* Create, lines 187-198: m.repo.CreateWorktree; when it fails the ledger is
\* executed if the branch was created, else AddWorktreeCleanup.
CreateWorktree(ok, fails) ==
    /\ exec.op = "create" /\ exec.at = "worktree"
    /\ IF ok
       THEN /\ rollbackAddCleanup(TRUE)
            /\ exec' = [exec EXCEPT !.appended = @ + 1, !.at = "files"]
       ELSE /\ IF exec.branchCreated THEN rollbackExecute(fails)
               ELSE UNCHANGED rmVars
            /\ exec' = Leaves(exec, "worktree")
    /\ UNCHANGED notExecVars

\* Create, lines 204-210: handleFileOperations; when it fails the ledger is
\* executed.
CreateFiles(ok, fails) ==
    /\ exec.op = "create" /\ exec.at = "files"
    /\ IF ok
       THEN /\ UNCHANGED rmVars
            /\ exec' = [exec EXCEPT !.at = "finish"]
       ELSE /\ rollbackExecute(fails)
            /\ exec' = Leaves(exec, "files")
    /\ UNCHANGED notExecVars

\* Create, lines 213-236: the post-create hooks and the editor, whose
\* failures are only warned about, and m.rollback.Clear().
CreateFinish ==
    /\ exec.op = "create" /\ exec.at = "finish"
    /\ rollbackClear
    /\ exec' = Leaves(exec, "nil")
    /\ UNCHANGED notExecVars

\* The ways the body of Delete ends, lines 271-331: uncommitted changes, no
\* confirmation, a dry run (nil), a failed pre-delete hook, a failed
\* RemoveWorktree, or the worktree is removed (nil).
DeleteOutcomes == {"dirty", "confirm", "dryrun", "hook", "remove", "deleted"}

\* Delete, lines 271-331.
DeleteBody(outcome) ==
    /\ exec.op = "delete" /\ exec.at = "body"
    /\ exec' = Leaves(exec, IF outcome \in {"dryrun", "deleted"} THEN "nil"
                            ELSE outcome)
    /\ UNCHANGED <<notExecVars, rmVars>>

\* PRManager.CreatePRWorktree (part_005, lines 57-162), on the Manager the
\* PRManager embeds: it calls neither AcquireLock nor ReleaseLock.

\* lines 58-86: the checks of the GitHub CLI and of the pull request, any of
\* which may return an error, and pm.rollback.Clear().
PRValidate(valid) ==
    /\ exec = NotStarted
    /\ IF valid
       THEN /\ rollbackClear
            /\ exec' = [NotStarted EXCEPT !.op = "createpr", !.at = "prpath"]
       ELSE /\ UNCHANGED rmVars
            /\ exec' = [NotStarted EXCEPT !.op = "createpr", !.at = "returned",
                                          !.err = "validation"]
    /\ UNCHANGED notExecVars

\* The ways lines 89-126 end: generatePRWorktreePath fails; the path exists
\* and Force is not set; removeExistingPath, CheckoutPR, the pre-create
\* hooks or CreateWorktree fails; the worktree is created.
PROutcomes == {"path", "exists", "remove", "checkout", "hook", "worktree",
               "created"}

\* lines 89-126: the path is made free, the branch of the pull request is
\* checked out, the hooks run, the worktree is created and
\* AddWorktreeCleanup records it.
PRWorktree(outcome) ==
    /\ exec.op = "createpr" /\ exec.at = "prpath"
    /\ IF outcome = "created"
       THEN /\ rollbackAddCleanup(TRUE)
            /\ exec' = [exec EXCEPT !.appended = @ + 1, !.at = "prfiles"]
       ELSE /\ UNCHANGED rmVars
            /\ exec' = Leaves(exec, outcome)
    /\ UNCHANGED notExecVars

\* lines 129-134: handleFileOperations; when it fails the ledger is executed.
PRFiles(ok, fails) ==
    /\ exec.op = "createpr" /\ exec.at = "prfiles"
    /\ IF ok
       THEN /\ UNCHANGED rmVars
            /\ exec' = [exec EXCEPT !.at = "prfinish"]
       ELSE /\ rollbackExecute(fails)
            /\ exec' = Leaves(exec, "files")
    /\ UNCHANGED notExecVars

\* lines 137-161: the metadata, the post-create hooks and the editor, whose
\* failures are only warned about, and pm.rollback.Clear().
PRFinish ==
    /\ exec.op = "createpr" /\ exec.at = "prfinish"
    /\ rollbackClear
    /\ exec' = Leaves(exec, "nil")
    /\ UNCHANGED notExecVars

\* lines 144-148 and 263-267, the deferred function:
\* m.lockManager.ReleaseLock(operationLock).
ExecRelease ==
    /\ exec.at = "release"
    /\ ~ExecUnseen
    /\ ReleaseLock(Executor, exec.h)

\* The deferred function is over (a release error is only warned about)
\* and the operation returns.
ExecReturn ==
    /\ exec.at = "release"
    /\ ExecUnseen
    /\ exec' = [exec EXCEPT !.at = "returned"]
    /\ UNCHANGED <<notExecVars, rmVars>>

InitExec ==
    /\ \E s \in {x \in Starts : x.threads = ExecThreads} : StartState(s, FALSE)
    /\ args = <<>>
    /\ keys = <<>>
    /\ NoneCalled
    /\ NewRollbackManager

\* The steps of the lock manager that thread th may take: the executor's
\* own, or the competitor's while no result of the executor waits to be
\* looked at.
ExecTurn(th) == th = Executor \/ ~ExecUnseen

NextExec ==
    \/ \E valid \in BOOLEAN, nolock \in BOOLEAN : CreateValidate(valid, nolock)
    \/ \E valid \in BOOLEAN, nolock \in BOOLEAN : DeleteValidate(valid, nolock)
    \/ \E timeout \in OperationTimeouts : ExecAcquire(timeout)
    \/ ExecLocked
    \/ CreateClear
    \/ \E outcome \in PathOutcomes : CreatePath(outcome)
    \/ \E outcome \in BranchOutcomes : CreateBranch(outcome)
    \/ \E ok \in BOOLEAN, fails \in SUBSET (0..(Len(operations) - 1)) :
          CreatePreHook(ok, fails)
    \/ \E ok \in BOOLEAN, fails \in SUBSET (0..(Len(operations) - 1)) :
          CreateWorktree(ok, fails)
    \/ \E ok \in BOOLEAN, fails \in SUBSET (0..(Len(operations) - 1)) :
          CreateFiles(ok, fails)
    \/ CreateFinish
    \/ \E outcome \in DeleteOutcomes : DeleteBody(outcome)
    \/ \E valid \in BOOLEAN : PRValidate(valid)
    \/ \E outcome \in PROutcomes : PRWorktree(outcome)
    \/ \E ok \in BOOLEAN, fails \in SUBSET (0..(Len(operations) - 1)) :
          PRFiles(ok, fails)
    \/ PRFinish
    \/ ExecRelease
    \/ ExecReturn
    \/ /\ ~ExecUnseen
       /\ \E r \in Requests, timeout \in Timeouts :
             AcquireLock(Competitor, r[1], r[2], timeout)
    \/ \E th \in ExecThreads : ExecTurn(th) /\ TryCreate(th)
    \/ \E th \in ExecThreads : ExecTurn(th) /\ WriteLockInfo(th)
    \/ \E th \in ExecThreads : ExecTurn(th) /\ CheckStale(th)
    \/ \E th \in ExecThreads : ExecTurn(th) /\ CleanupStaleLock(th)
    \/ \E th \in ExecThreads : ExecTurn(th) /\ AcquireFailed(th)
    \/ /\ ~ExecUnseen
       /\ \E h \in Returned(Proc(Competitor)) \cup {NoHandle} :
             ReleaseLock(Competitor, h)

SpecExec == InitExec /\ [][NextExec]_vars

\* ------------------------------------------------ spellings of one path

\* AcquireLock computes the key from targetPath as the caller passed it
\* (line 67).  Callers of two processes, and a second thread of the first,
\* ask for the create lock under three spellings of one path; the lock
\* directory has one file per key of these.
PathRequests == {<<LockTypeCreate, path>> : path \in {"/repo/A", "/repo/A/", "/repo/./A"}}
PathKeys == {generateLockKey(r[1], r[2]) : r \in PathRequests}
PathThreads == {<<1, 1>>, <<1, 2>>, <<2, 1>>}

InitPaths ==
    /\ alive = [p \in Procs |-> p \notin Dead]
    /\ files = [k \in PathKeys |-> NoFile]
    /\ locks = [p \in Procs |-> [k \in PathKeys |-> NoHandle]]
    /\ mu = [p \in Procs |-> NoThread]
    /\ ol = [x \in HandleIds |-> NoLock]
    /\ pc = [th \in Threads |-> IF th \in PathThreads THEN "idle" ELSE "off"]
    /\ call = [th \in Threads |-> NoCall]
    /\ last = NoResult
    /\ fsFaults = FALSE
    /\ args = <<>>
    /\ keys = <<>>
    /\ NoneCalled
    /\ NewRollbackManager

NextPaths ==
    \/ \E th \in PathThreads, r \in PathRequests, timeout \in Timeouts :
         AcquireLock(th, r[1], r[2], timeout)
    \/ \E th \in PathThreads : TryCreate(th)
    \/ \E th \in PathThreads : WriteLockInfo(th)
    \/ \E th \in PathThreads : CheckStale(th)
    \/ \E th \in PathThreads : CleanupStaleLock(th)
    \/ \E th \in PathThreads : AcquireFailed(th)

SpecPaths == InitPaths /\ [][NextPaths]_vars

\* ------------------------------------------------------------- the claims

\* The handles AcquireLock has returned to a live process as acquired and
\* that have not been released since.
Held(key) ==
    {h \in HandleIds : /\ alive[h[1]] /\ ol[h].key = key
                       /\ ol[h].returned /\ ol[h].acquired}

\* C1: mutual exclusion across processes.  In no reachable state have two
\* handles of live processes for the same key both been returned as acquired
\* and neither been released.
MutualExclusion == \A key \in LockKeys : Cardinality(Held(key)) <= 1

\* How far an AcquireLock call has come on the way that ends in success.
Rank(where) ==
    CASE where = "stale" -> 1
      [] where = "unstale" -> 2
      [] where = "create" -> 3
      [] where = "write" -> 4
      [] where = "idle" -> 5
      [] OTHER -> 0

\* The calls with a positive timeout that found the lock file of a dead
\* process and have had no competitor.
Reclaiming(calls, th) == calls[th].alone /\ calls[th].timeout > 0

\* C2: stale-lock reclamation.  An AcquireLock with a positive timeout on a
\* key whose lock file records the pid of a process that no longer exists,
\* with no other process competing for the key, never sleeps and never fails:
\* every step it takes brings it nearer to success (staleness check, removal
\* of the stale file, creation of its own file, write of the record), and it
\* returns nil with its handle acquired, registered and owning the lock file,
\* no time having elapsed.
StaleLockReclaimed ==
    [][\A th \in Threads :
        /\ Reclaiming(call', th) =>
              /\ Rank(pc'[th]) \in 1..4
              /\ call'[th].elapsed = 0
        /\ (Reclaiming(call, th) /\ pc'[th] # pc[th]) =>
              /\ Rank(pc'[th]) > Rank(pc[th])
              /\ pc'[th] = "write" => files'[ol[call[th].h].key].creator = call[th].h
              /\ pc'[th] = "idle" =>
                    /\ last' = Result(th, "acquire", "ok")
                    /\ ol'[call[th].h].acquired /\ ol'[call[th].h].returned
                    /\ locks'[Proc(th)][ol[call[th].h].key] = call[th].h
                    /\ files'[ol[call[th].h].key] =
                          [creator |-> call[th].h, pid |-> Proc(th)]
      ]_vars

\* A reclaiming call has removed the dead process's file and created its own.
StaleLockReclaimedWitness ==
    \E th \in Threads :
        /\ Reclaiming(call, th)
        /\ pc[th] = "write"
        /\ files[ol[call[th].h].key].creator = call[th].h

\* C3: double-acquire rejection.  An AcquireLock for a key for which the
\* manager's table holds an acquired handle returns the "already acquired"
\* error in that one step, and the lock directory, the table, every handle
\* and every call in progress are as before.
DoubleAcquireRejected ==
    [][\A th \in Threads, r \in Requests :
        LET tracked == locks[Proc(th)][generateLockKey(r[1], r[2])]
        IN  (pc[th] = "idle" /\ tracked # NoHandle /\ ol[tracked].acquired)
            => \A timeout \in Timeouts :
                 AcquireLock(th, r[1], r[2], timeout)
                 => /\ last' = Result(th, "acquire", "already")
                    /\ UNCHANGED <<files, locks, ol, mu, pc, call>>
      ]_vars

\* A call was rejected while the handle it collided with is held.
DoubleAcquireRejectedWitness ==
    \E th \in Threads, key \in LockKeys :
        /\ last = Result(th, "acquire", "already")
        /\ locks[Proc(th)][key] # NoHandle
        /\ ol[locks[Proc(th)][key]].acquired
        /\ files[key].creator = locks[Proc(th)][key]

\* C4: re-acquire after release.  When a manager has released a handle for
\* a key, holds no acquired handle for it, no other live process holds or is
\* acquiring the key and no dead process has left its lock file, a new
\* AcquireLock for the key on that manager creates the lock file at its first
\* attempt, for a fresh handle that is acquired; and a call that has created
\* its file returns nil, its handle registered in the table.
ReacquireAfterRelease ==
    [][\A th \in Threads :
        /\ \A r \in Requests :
              LET p == Proc(th)
                  key == generateLockKey(r[1], r[2])
                  h == NextHandle(p)
              IN  (/\ pc[th] = "idle"
                   /\ \E x \in Returned(p) : ol[x].key = key /\ ~ol[x].acquired
                   /\ ~(locks[p][key] # NoHandle /\ ol[locks[p][key]].acquired)
                   /\ Competitors(p, key) = {}
                   /\ ~(files[key] # NoFile /\ ~alive[files[key].creator[1]]))
                  => \A timeout \in Timeouts :
                       AcquireLock(th, r[1], r[2], timeout)
                       => /\ pc'[th] = "write"
                          /\ h \notin Returned(p)
                          /\ ol'[h].acquired
                          /\ files'[key].creator = h
        /\ (pc[th] = "write" /\ pc'[th] # "write")
              => /\ last' = Result(th, "acquire", "ok")
                 /\ ol'[call[th].h].returned /\ ol'[call[th].h].acquired
                 /\ locks'[Proc(th)][ol[call[th].h].key] = call[th].h
      ]_vars

\* A manager holds a key by a second handle, the first one released.
ReacquireAfterReleaseWitness ==
    \E x \in HandleIds, y \in HandleIds :
        /\ x[1] = y[1] /\ x[2] < y[2] /\ alive[x[1]]
        /\ ol[x].key # "" /\ ol[x].key = ol[y].key
        /\ ol[x].returned /\ ~ol[x].acquired
        /\ ol[y].returned /\ ol[y].acquired
        /\ locks[y[1]][ol[y].key] = y
        /\ files[ol[y].key] = [creator |-> y, pid |-> y[1]]

\* C5: independence across kinds.  An AcquireLock of one kind on a path,
\* when no lock file in the directory was created for that kind and the
\* manager's table holds no acquired handle of that kind, creates its lock file
\* at the first attempt, whatever locks of other kinds on the path are held
\* or being acquired, by this manager or by other processes.
KindsIndependent ==
    [][\A th \in Threads, r \in Requests :
        LET p == Proc(th)
        IN  (/\ pc[th] = "idle"
             /\ \A k \in LockKeys :
                   /\ files[k] # NoFile => ol[files[k].creator].operation # r[1]
                   /\ (locks[p][k] # NoHandle /\ ol[locks[p][k]].acquired)
                         => ol[locks[p][k]].operation # r[1])
            => \A timeout \in Timeouts :
                 AcquireLock(th, r[1], r[2], timeout)
                 => /\ pc'[th] = "write"
                    /\ ol'[NextHandle(p)].acquired
                    /\ ol'[NextHandle(p)].operation = r[1]
      ]_vars

\* Two live processes hold locks of different kinds on one path.
KindsIndependentWitness ==
    \E x \in HandleIds, y \in HandleIds :
        /\ x[1] # y[1]
        /\ ol[x].operation # "" /\ ol[y].operation # ""
        /\ ol[x].operation # ol[y].operation
        /\ x \in Held(ol[x].key) /\ y \in Held(ol[y].key)
        /\ files[ol[x].key].creator = x /\ files[ol[y].key].creator = y

\* C6: idempotent release.  A ReleaseLock of no handle, or of a handle that
\* is not acquired (released before), returns nil and leaves the lock
\* directory, the manager's table and every handle as they were.
ReleaseIdempotent ==
    [][\A th \in Threads :
        \A h \in Returned(Proc(th)) \cup {NoHandle} :
           (/\ pc[th] = "idle"
            /\ h = NoHandle \/ ~ol[h].acquired
            /\ ReleaseLock(th, h))
           => /\ last'.th = th /\ last'.op = "release" /\ last'.res = "ok"
              /\ UNCHANGED <<files, locks, ol>>
      ]_vars

\* A handle was released a second time while another handle holds its key.
ReleaseIdempotentWitness ==
    \E x \in HandleIds, y \in HandleIds :
        /\ x # y /\ ol[x].key # "" /\ ol[x].key = ol[y].key
        /\ last.op = "release" /\ last.noop = "released" /\ last.th[1] = x[1]
        /\ ol[x].returned /\ ~ol[x].acquired
        /\ ol[y].returned /\ ol[y].acquired /\ alive[y[1]]
        /\ files[ol[y].key].creator = y

\* C7: timeout.  An AcquireLock with timeout T on a key that another live
\* process holds from the call's start to its end, never releasing, returns
\* the timeout error, not before T has elapsed and less than one retry
\* interval after T.
TimeoutWhileHeld ==
    [][\A th \in Threads :
        LET c == call[th]
        IN  (/\ c.holder # NoHandle
             /\ pc[th] # "idle" /\ pc'[th] = "idle"
             /\ alive'[c.holder[1]]
             /\ ol'[c.holder].returned /\ ol'[c.holder].acquired)
            => /\ last' = Result(th, "acquire", "timeout")
               /\ c.elapsed >= c.timeout
               /\ c.elapsed < c.timeout + RetryDelay
      ]_vars

\* C8: ReleaseAll.  When ReleaseAll returns, every handle that was in the
\* table has been released (none is still acquired, whichever releases
\* failed), the table is empty, no handle that was tracked and released
\* without error still has its lock file, and the result is nil exactly
\* when no release failed.
ReleaseAllBestEffort ==
    [][\A th \in Threads :
        ((ReleaseAll(th) \/ ReleaseAllNext(th)) /\ pc'[th] = "idle")
        => /\ last'.th = th /\ last'.op = "releaseall"
           /\ last'.tracked = {locks[Proc(th)][k] : k \in LockKeys} \ {NoHandle}
           /\ last'.failed \subseteq last'.tracked
           /\ \A k \in LockKeys : locks'[Proc(th)][k] = NoHandle
           /\ \A h \in last'.tracked : ~ol'[h].acquired
           /\ \A h \in last'.tracked \ last'.failed :
                 files'[ol[h].key].creator # h
           /\ last'.res = "ok" <=> last'.failed = {}
           /\ last'.res \in {"ok", "error"}
      ]_vars

\* A ReleaseAll of two handles has returned, the release of one having
\* failed: its error is returned, both handles are released, the table is
\* empty.
ReleaseAllBestEffortWitness ==
    /\ last.op = "releaseall" /\ last.res = "error"
    /\ Cardinality(last.tracked) = 2
    /\ Cardinality(last.failed) = 1
    /\ \A h \in last.tracked : ~ol[h].acquired
    /\ \A k \in LockKeys : locks[last.th[1]][k] = NoHandle

\* C9: the per-process table.  Every handle a live manager has returned and
\* that is acquired is the one its table maps the handle's key to; so at most
\* one handle per key and manager is acquired.
TableInvariant ==
    \A h \in HandleIds :
        (alive[h[1]] /\ ol[h].returned /\ ol[h].acquired)
        => locks[h[1]][ol[h].key] = h

\* A manager holds two keys, each by the handle its table maps the key to.
TableInvariantWitness ==
    \E x \in HandleIds, y \in HandleIds :
        /\ x[1] = y[1] /\ x # y /\ alive[x[1]]
        /\ ol[x].returned /\ ol[x].acquired /\ locks[x[1]][ol[x].key] = x
        /\ ol[y].returned /\ ol[y].acquired /\ locks[y[1]][ol[y].key] = y

\* C10: lock key derivation.  Two calls of generateLockKey with equal
\* arguments give equal keys; with kinds that differ and the same path, or
\* paths that differ and the same kind, they give different keys.
KeyDerivation ==
    keys # <<>> =>
        /\ args[1] = args[2] => keys[1] = keys[2]
        /\ (args[1][1] # args[2][1] /\ args[1][2] = args[2][2]) => keys[1] # keys[2]
        /\ (args[1][1] = args[2][1] /\ args[1][2] # args[2][2]) => keys[1] # keys[2]

\* The keys of two kinds on one path have been computed.
KeyDerivationWitness ==
    /\ keys # <<>>
    /\ args[1][1] # args[2][1] /\ args[1][2] = args[2][2]
    /\ keys[1] = generateLockKey(LockTypeCreate, "/repo/A")

\* ------------------------------------------------- the claims about Execute

\* A step in which Execute runs on a ledger that is not empty: no other
\* method leaves a result of Execute behind.
Executes == operations # <<>> /\ ret'.call = "execute"


\* The elements of a set of numbers, from the largest down.
RECURSIVE Descending(_)
Descending(S) ==
    IF S = {} THEN <<>>
    ELSE LET m == CHOOSE x \in S : \A y \in S : y <= x
         IN  <<m>> \o Descending(S \ {m})

ModeBAbort ==
    (ret.call = "execute" /\ ret.mode = "strict")
        => \A f \in ret.errored \cap ret.critical :
              /\ \A k \in 1..Len(ret.invoked) :
                    /\ ret.invoked[k] >= f
                    /\ ret.invoked[k] \in ret.critical
              /\ operations = <<>>
              /\ ret.err = "critical"

\* Execute in mode B ran a non-critical and two critical operations: the last
\* one succeeded, the one before it failed, the non-critical one never ran.
ModeBAbortWitness ==
    /\ ret.call = "execute" /\ ret.mode = "strict"
    /\ ret.n = 3 /\ ret.critical = {1, 2}
    /\ ret.invoked = <<2, 1>> /\ ret.errored = {1}
    /\ ret.err = "critical"

Range(q) == {q[k] : k \in 1..Len(q)}

\* C15: in mode C (after SetFailFast(false)), on a ledger whose dependencies
\* are acyclic, an operation that depends, directly or through a chain, on
\* an operation whose action failed is not invoked.
SkipDependentsModeC ==
    [][(Executes /\ Mode = "deps" /\ Acyclic)
          => \A x \in IDs :
                AllDeps(x) \cap ret'.errored # {} => x \notin Range(ret'.invoked)]_vars

\* Execute in mode C ran three operations: the last one failed, the one that
\* depends on it was skipped and the one waiting for the skipped one was
\* left with a dependency-constraint error; neither was invoked.
SkipDependentsModeCWitness ==
    /\ ret.call = "execute" /\ ret.mode = "deps"
    /\ ~ret.cyclic /\ ~ret.missing
    /\ ret.n = 3 /\ ret.invoked = <<2>> /\ ret.errored = {2}
    /\ ret.stuck = {0}

ModeCTerminates ==
    [][(Executes /\ Mode = "deps")
          => /\ ret'.passes <= Len(operations)
             /\ operations' = <<>>
             /\ \A x \in IDs :
                   Blocked(x) => /\ x \notin Range(ret'.invoked)
                                 /\ ret'.err = "aggregate"]_vars

\* Execute in mode C ran three operations with a dependency cycle in two
\* passes: the last one was invoked and succeeded, the other two wait for
\* an operation that never runs and got the dependency-constraint error.
ModeCTerminatesWitness ==
    /\ ret.call = "execute" /\ ret.mode = "deps" /\ ret.cyclic
    /\ ret.n = 3 /\ ret.invoked = <<2>> /\ ret.errored = {}
    /\ ret.stuck = {0, 1} /\ ret.passes = 2 /\ ret.err = "aggregate"
    /\ operations = <<>>

\* C18: the ledger is empty whenever Execute has returned, whatever the mode
\* and the error; no recorded action is invoked more than once over all the
\* calls made; an Execute on an empty ledger invokes nothing and returns nil.
LedgerConsumedOnce ==
    /\ ret.call = "execute"
          => /\ operations = <<>>
             /\ ret.n = 0 => (ret.invoked = <<>> /\ ret.err = "nil")
    /\ \A s \in 1..MaxOps : invocations[s] <= 1

\* Execute has just returned from an empty ledger, after an earlier Execute
\* invoked at least two recorded actions.
LedgerConsumedOnceWitness ==
    /\ ret.call = "execute" /\ ret.n = 0
    /\ Cardinality({s \in 1..MaxOps : invocations[s] = 1}) >= 2

\* The operation whose action failed last among those invoked, in order.
LastFailed(invoked, errored) ==
    invoked[CHOOSE k \in 1..Len(invoked) :
                /\ invoked[k] \in errored
                /\ \A j \in (k + 1)..Len(invoked) : invoked[j] \notin errored]

\* C19 as stated: when an action fails during Execute, GetLastError is
\* afterwards the error of the operation whose action failed last.
LastErrorOfLastFailure ==
    [][(Executes /\ ret'.errored # {})
          => lastError' =
                ActionError(operations[LastFailed(ret'.invoked, ret'.errored) + 1])]_vars

\* C19, amended: when an action fails during Execute, GetLastError is
\* afterwards the error recorded last: the error of the operation whose
\* action failed last or, in mode C when operations were left that no pass
\* could run, the dependency-constraint error of the last of them. No other
\* method changes it, and Execute on an empty ledger does not either.
LastErrorRetained ==
    [][IF Executes
       THEN ret'.errored # {}
               => lastError' =
                     IF ret'.stuck = {}
                     THEN ActionError(
                              operations[LastFailed(ret'.invoked, ret'.errored) + 1])
                     ELSE ConstraintError(
                              operations[Head(Descending(ret'.stuck)) + 1])
       ELSE lastError' = lastError]_vars

\* Execute in mode B stopped at a failing critical operation, and the error
\* of that operation is what GetLastError returns with the ledger cleared.
LastErrorRetainedWitness ==
    /\ ret.call = "execute" /\ ret.err = "critical" /\ ret.errored # {}
    /\ GetLastError.kind = "action"
    /\ ~HasOperations

\* C20: Clear invokes no action, leaves HasOperations false and
\* GetOperations empty and does not change failFast; an Execute on the
\* ledger it left invokes nothing and returns nil.
ClearDiscards ==
    [][/\ Clear => /\ Len(operations') = 0
                   /\ invocations' = invocations
                   /\ failFast' = failFast
                   /\ failFastExplicitlySet' = failFastExplicitlySet
       /\ (~HasOperations /\ ret'.call = "execute")
             => /\ invocations' = invocations
                /\ ret'.invoked = <<>>
                /\ ret'.err = "nil"]_vars

\* Two operations were recorded and none was ever invoked, the ledger is
\* empty and Execute has just returned: it ran after a Clear.
ClearDiscardsWitness ==
    /\ added >= 2 /\ \A s \in 1..MaxOps : invocations[s] = 0
    /\ ~HasOperations /\ GetOperations = <<>>
    /\ ret.call = "execute" /\ ret.err = "nil"

\* C22: in mode B (after SetFailFast(true)), when the action of a
\* non-critical operation fails and that of no critical operation does,
\* Execute has invoked every critical operation once and every non-critical
\* operation once that does not depend on an operation whose action failed,
\* and returns the aggregate error, not the "critical rollback operation
\* failed" one.
ModeBNonCriticalFailure ==
    [][(/\ Executes /\ Mode = "strict"
        /\ ret'.errored # {} /\ ret'.errored \cap CriticalIDs = {})
          => /\ \A x \in CriticalIDs : Count(ret'.invoked, x) = 1
             /\ \A x \in IDs \ CriticalIDs :
                   DirectDeps(x) \cap ret'.errored = {}
                       => Count(ret'.invoked, x) = 1
             /\ ret'.err = "aggregate"]_vars

\* Execute in mode B ran a critical and two non-critical operations without
\* dependencies: the non-critical one invoked first failed, the other still
\* ran, and the error is the aggregate one.
ModeBNonCriticalFailureWitness ==
    /\ ret.call = "execute" /\ ret.mode = "strict" /\ ret.ndeps = 0
    /\ ret.n = 3 /\ ret.critical = {0}
    /\ ret.invoked = <<0, 2, 1>> /\ ret.errored = {2}
    /\ ret.err = "aggregate"

\* ------------------------------------------- the claim about contention

\* The goroutines whose AcquireLock succeeded, and whether all are done.
Succeeded == {th \in Goroutines : local[th].at \in {"acquired", "held", "released"}}
AllDone == \A th \in Goroutines : local[th].at \in {"failed", "released"}

Recorded == {g \in Adders : adders[g].at \in {"appended", "done"}}
AddReturned == {g \in Adders : adders[g].at = "done"}

\* C21: in every interleaving of concurrent AddXCleanup calls on one
\* manager, the ledger holds one operation for every call that has appended
\* (none lost, none twice), the IDs of these calls are pairwise distinct and
\* are exactly 0..n-1, and the operation at position id is the one the call
\* with that ID built: its ID field is id and its Critical is that of the
\* method called.
ConcurrentAddIDs ==
    LET n == Len(operations)
    IN  /\ n = Cardinality(Recorded)
        /\ \A g \in Recorded, o \in Recorded :
              g # o => adders[g].id # adders[o].id
        /\ {adders[g].id : g \in Recorded} = 0..(n - 1)
        /\ \A g \in Recorded :
              /\ adders[g].id \in 0..(n - 1)
              /\ operations[adders[g].id + 1].ID = adders[g].id
              /\ operations[adders[g].id + 1].Critical = CriticalOf(adders[g].type)
        /\ \A i \in 1..n : operations[i].ID = i - 1

\* All goroutines have returned, the last one first in the ledger, and the
\* ledger mixes critical and non-critical operations.
ConcurrentAddIDsWitness ==
    /\ AddReturned = Adders
    /\ adders[MaxOps].id = 0 /\ adders[1].id = MaxOps - 1
    /\ adders[1].type = RollbackRemoveFiles
    /\ adders[MaxOps].type = RollbackCleanupLinks
    /\ Len(operations) = MaxOps

\* ------------------------------------- the claims about Create and Delete

\* C23: for Create and Delete, on every return path taken after AcquireLock
\* succeeded the operation has the handle and ends through ReleaseLock on
\* it: when that ReleaseLock has returned, and so when the operation
\* returns, the handle is released (it was acquired until then, and the
\* release returned nil), the manager's table holds no handle for the key
\* and no lock file is at the key's path; afterwards the handle stays
\* released, the table without it, and no lock file is one it created.
ExecutorReleases ==
    LET key == ExecKey(exec.op)
        h == exec.h
    IN  /\ (/\ exec.op \in {"create", "delete"}
            /\ exec.at \in {"release", "returned"} /\ ~exec.nolock
            /\ exec.err \notin {"validation", "lock"})
              => h # NoHandle /\ ol[h].returned
        /\ (exec.at = "release" /\ ExecUnseen)
              => /\ last.res = "ok" /\ last.noop = ""
                 /\ ~ol[h].acquired
                 /\ locks[Proc(Executor)][key] = NoHandle
                 /\ files[key] = NoFile
        /\ (exec.at = "returned" /\ h # NoHandle)
              => /\ ~ol[h].acquired
                 /\ locks[Proc(Executor)][key] = NoHandle
                 /\ files[key].creator # h

\* Create has returned the error of handleFileOperations after a rollback,
\* its lock taken and released.
ExecutorReleasesWitness ==
    /\ exec.op = "create" /\ exec.at = "returned" /\ exec.err = "files"
    /\ exec.h # NoHandle /\ ~ol[exec.h].acquired
    /\ ret.call = "execute"
    /\ files[ExecKey("create")] = NoFile

\* C24: when Create ends, with or without an error, the ledger is empty;
\* and when it ends with an error after it appended compensating actions,
\* Execute has run and has invoked every one of them.
RollbackOnFailure ==
    (/\ exec.op = "create" /\ exec.at \in {"release", "returned"}
     /\ exec.err \notin {"validation", "lock"})
        => /\ operations = <<>>
           /\ (exec.err # "nil" /\ exec.appended > 0)
                 => /\ ret.call = "execute"
                    /\ Range(ret.invoked) = 0..(exec.appended - 1)

\* ------------------------------------ the claims about the lock file

\* The key of the call thread th is inside.
CallKey(th) == ol[call[th].h].key

\* C25: an acquirer that reads, in its staleness check, a lock file that a
\* live process created finds in it the pid line of that process, and does
\* not classify the file as stale.
AtomicLockRecord ==
    [][\A th \in Threads :
        (/\ pc[th] = "stale" /\ pc'[th] # "stale"
         /\ files[CallKey(th)] # NoFile
         /\ alive[files[CallKey(th)].creator[1]])
        => /\ extractPIDFromLockInfo(files[CallKey(th)])
                 = files[CallKey(th)].creator[1]
           /\ pc'[th] # "unstale"
      ]_vars

\* C26: once the timeout of an AcquireLock call has elapsed the call makes
\* no further attempt to create the lock file and does not return success;
\* its next step is the return of the timeout error.
NoAcquirePastTimeout ==
    [][\A th \in Threads :
        /\ (pc[th] = "create" /\ pc'[th] # "create")
              => ~TimedOut(call[th].elapsed, call[th].timeout)
        /\ (/\ pc[th] = "write" /\ pc'[th] = "idle"
            /\ last' = Result(th, "acquire", "ok") /\ call[th].elapsed > 0)
              => ~TimedOut(call[th].elapsed, call[th].timeout)
      ]_vars

\* The threads of the process of th that are inside AcquireLock for another
\* key than that of handle h and have slept there at least once.
Polling(th, h) ==
    {o \in Threads : /\ Proc(o) = Proc(th) /\ o # th
                     /\ pc[o] \in {"create", "stale", "unstale"}
                     /\ call[o].elapsed > 0
                     /\ CallKey(o) # ol[h].key}

\* C27: a thread that holds a lock can release it without waiting while
\* another thread of its process is inside AcquireLock, polling for another
\* key: ReleaseLock on its handle, and ReleaseAll, can take their step.
ReleaseNeverWaits ==
    \A th \in Threads :
        \A h \in Returned(Proc(th)) :
            (/\ Running(th) /\ pc[th] = "idle" /\ ol[h].acquired
             /\ Polling(th, h) # {})
            => /\ ENABLED ReleaseLock(th, h)
               /\ ENABLED ReleaseAll(th)

\* C28: an AcquireLock that returns the timeout error while a live process
\* of another manager holds the key leaves the lock file of the holder as
\* it is, with its content, and the table of the failing manager unchanged.
FailedAcquireNoEffect ==
    [][\A th \in Threads :
        (/\ pc[th] = "cleanup" /\ pc'[th] = "idle"
         /\ call[th].err = "timeout"
         /\ files[CallKey(th)].creator \in Holders(Proc(th), CallKey(th)))
        => /\ files'[CallKey(th)] = files[CallKey(th)]
           /\ locks'[Proc(th)] = locks[Proc(th)]
      ]_vars

\* C29: the removal of a lock found stale deletes only a lock file whose
\* creating process is dead.
StaleRemovalOnlyOfDead ==
    [][\A th \in Threads :
        (/\ pc[th] = "unstale" /\ pc'[th] # "unstale"
         /\ files[CallKey(th)] # NoFile)
        => ~alive[files[CallKey(th)].creator[1]]
      ]_vars

\* C30: for every handle AcquireLock has returned to a live process and
\* that has not been released, the lock file of its key exists and its pid
\* line names the process of the handle.
HeldLockOnDisk ==
    \A key \in LockKeys :
        \A h \in Held(key) :
            /\ files[key] # NoFile
            /\ extractPIDFromLockInfo(files[key]) = h[1]

\* The handles the table of process p tracks.
Tracked(p) == {locks[p][k] : k \in LockKeys} \ {NoHandle}

\* C31: a release removes only its own file.  A ReleaseLock of a handle
\* changes no lock file but one that this handle created, and a step of
\* ReleaseAll none but one created by a handle of the manager's table; the
\* lock file another process has created for the key since stays in place.
ReleaseRemovesOwnFile ==
    [][\A th \in Threads :
        /\ \A h \in Returned(Proc(th)) :
              (pc[th] = "idle" /\ ReleaseLock(th, h))
              => \A key \in LockKeys :
                    files'[key] # files[key] => files[key].creator = h
        /\ (pc[th] \in {"idle", "releaseall"}
            /\ (ReleaseAll(th) \/ ReleaseAllNext(th)))
              => \A key \in LockKeys :
                    files'[key] # files[key]
                        => files[key].creator \in Tracked(Proc(th))
      ]_vars

\* filepath.Clean of the paths of TargetPaths: no trailing separator, no
\* "." segment.
Clean(targetPath) ==
    CASE targetPath = "/repo/A/"  -> "/repo/A"
      [] targetPath = "/repo/./A" -> "/repo/A"
      [] OTHER -> targetPath

\* The paths an AcquireLock for handle h may have been called with.
PathsOf(h) ==
    {path \in TargetPaths : generateLockKey(ol[h].operation, path) = ol[h].key}

\* C32: two AcquireLock calls of the same kind whose paths are spellings of
\* one target conflict: no two handles of live processes, for the same kind
\* and for paths that normalize to the same path, have both been returned as
\* acquired and neither been released.
SpellingsConflict ==
    \A x \in HandleIds, y \in HandleIds :
        (/\ x # y
         /\ x \in Held(ol[x].key) /\ y \in Held(ol[y].key)
         /\ ol[x].operation = ol[y].operation)
        => \A a \in PathsOf(x), b \in PathsOf(y) : Clean(a) # Clean(b)

\* ------------------------------------- the claims about the order of Execute

\* The phase (modes A and B: 1 for a critical operation, 2 for a
\* non-critical one) or the pass (mode C) of the k-th invocation of the
\* Execute that returned last.
RoundOf(k) ==
    IF ret.mode = "deps" THEN ret.round[k]
    ELSE IF ret.invoked[k] \in ret.critical THEN 1 ELSE 2

\* C33: in every mode, of two operations whose actions one Execute invoked
\* in the same phase (modes A and B) or in the same pass (mode C), the one
\* inserted later was invoked before the one inserted earlier.
ReverseOrderEveryMode ==
    ret.call = "execute"
        => \A k \in 1..Len(ret.invoked), l \in 1..Len(ret.invoked) :
              (k < l /\ RoundOf(k) = RoundOf(l))
                  => ret.invoked[k] > ret.invoked[l]

\* C34: in mode C, whenever the action of an operation is invoked, the
\* action of each operation it was declared to depend on has been invoked
\* earlier in the same Execute and has succeeded.
ModeCDependencyOrder ==
    [][(Executes /\ Mode = "deps")
          => \A k \in 1..Len(ret'.invoked) :
                \A d \in DirectDeps(ret'.invoked[k]) :
                    /\ d \notin ret'.errored
                    /\ \E j \in 1..(k - 1) : ret'.invoked[j] = d]_vars

\* Execute in mode C ran a chain of three operations in three passes, each
\* one after the operation it depends on: the last recorded first.
ModeCDependencyOrderWitness ==
    /\ ret.call = "execute" /\ ret.mode = "deps"
    /\ ret.n = 3 /\ ret.ndeps = 2 /\ ~ret.cyclic /\ ~ret.missing
    /\ ret.invoked = <<2, 1, 0>> /\ ret.round = <<1, 2, 3>>
    /\ ret.errored = {} /\ ret.err = "nil"

\* C35: in mode C every operation of the ledger ends Execute in exactly one
\* of four states: its action was invoked and succeeded, was invoked and
\* failed, the operation was skipped for a failed dependency, or was given
\* the dependency-constraint error.  An operation that depends, directly or
\* through a chain, on an operation whose action failed is skipped for that
\* dependency (unless it is tied to a cycle or to an ID not in the ledger);
\* and the dependency-constraint error is given only to operations that lie
\* on a cycle or depend, directly or through a chain, on one that does or on
\* an ID not in the ledger.
FinalStatesModeC ==
    [][(Executes /\ Mode = "deps")
          => LET success == Range(ret'.invoked) \ ret'.errored
                 failure == ret'.errored
                 byCycle == ret'.stuck
                 byDependency == (IDs \ Range(ret'.invoked)) \ ret'.stuck
             IN  /\ failure \subseteq Range(ret'.invoked)
                 /\ byCycle \cap Range(ret'.invoked) = {}
                 /\ success \cup failure \cup byCycle \cup byDependency = IDs
                 /\ \A x \in IDs : Count(ret'.invoked, x) <= 1
                 /\ \A x \in IDs :
                       (AllDeps(x) \cap failure # {} /\ ~Blocked(x))
                           => x \in byDependency
                 /\ \A x \in byCycle : Blocked(x)]_vars

\* C36: in every mode, Execute returns nil exactly when it has invoked the
\* action of every operation of the ledger once and every one succeeded; an
\* operation whose action failed, or that was skipped or left with the
\* dependency-constraint error, makes the result an error.
ExecuteResult ==
    ret.call = "execute"
        => (ret.err = "nil"
               <=> /\ \A i \in 0..(ret.n - 1) : Count(ret.invoked, i) = 1
                   /\ Len(ret.invoked) = ret.n
                   /\ ret.errored = {}
                   /\ ret.stuck = {})

\* Execute in mode A returned nil from a ledger of three operations with two
\* dependencies, every action invoked once.
ExecuteResultWitness ==
    /\ ret.call = "execute" /\ ret.mode = "resilient"
    /\ ret.n = 3 /\ ret.ndeps = 2 /\ ret.critical = {1}
    /\ ret.invoked = <<1, 2, 0>> /\ ret.errored = {}
    /\ ret.err = "nil"

\* C37: whenever Execute runs with failFast set, by default or by
\* SetFailFast(true), and no critical action it invokes fails, then for
\* every assignment of failure to the actions that agrees with what the
\* invoked actions returned, the fail-fast branch run on the same ledger in
\* the other of the two modes has no failing critical action either, invokes
\* the same actions in the same order and returns the same result.
ModesAgree ==
    [][(Executes /\ failFast /\ ret'.errored \cap CriticalIDs = {})
          => \A fails \in SUBSET IDs :
                (fails \cap Range(ret'.invoked) = ret'.errored)
                => LET other == FailFastPhases(operations, RunStart(lastError),
                                               fails, ~failFastExplicitlySet)
                   IN  /\ other.errored \cap CriticalIDs = {}
                       /\ other.invoked = ret'.invoked
                       /\ other.errored = ret'.errored
                       /\ ret'.err = IF other.aborted THEN "critical"
                                     ELSE IF other.nerr > 0 THEN "aggregate"
                                     ELSE "nil"]_vars

\* Execute after SetFailFast(true) ran two critical operations and then a
\* non-critical one, which failed: the order and the aggregate error of the
\* default mode.
ModesAgreeWitness ==
    /\ ret.call = "execute" /\ ret.mode = "strict"
    /\ ret.n = 3 /\ ret.critical = {1, 2}
    /\ ret.invoked = <<2, 1, 0>> /\ ret.errored = {0}
    /\ ret.err = "aggregate"

\* C38: no call of a method of the RollbackManager panics, whatever
\* integers AddDependency is given.
NoPanic == ret.call # "panic"

\* ------------------------------ the claim about side effects and the lock

\* Where an operation of the executor is when its next step has side
\* effects on the repository, the file system or the ledger.
SideEffecting ==
    {"path", "branch", "prehook", "worktree", "files", "body", "prpath",
     "prfiles"}

\* C39: every step of Create, Delete and CreatePRWorktree that has side
\* effects or appends to the ledger is taken while the operation holds a
\* handle that AcquireLock returned to it and that is acquired.
SideEffectsUnderLock ==
    [][(exec.at \in SideEffecting /\ exec' # exec)
          => /\ exec.h # NoHandle
             /\ ol[exec.h].returned /\ ol[exec.h].acquired]_vars

====
